---- MODULE Spec2Model ----
(***************************************************************************)
(* A state-machine model of the pack builder of src/src/pack-objects.c:    *)
(* the object registry (git_packbuilder_insert), the delta search          *)
(* (prepare_pack, ll_find_deltas, find_deltas, try_delta), the write-order *)
(* planner (compute_write_order) and the pack writer (write_pack,          *)
(* write_one, write_object), plus the pure function name_hash.             *)
(*                                                                         *)
(* A pointer to an entry is the index of the entry in object_list, with    *)
(* 0 for NULL.  Allocation failures are not modelled.  The window and the  *)
(* depth that prepare_pack hands to ll_find_deltas are scaled down (see    *)
(* GIT_PACK_WINDOW and GIT_PACK_DEPTH); find_deltas and try_delta take     *)
(* them as parameters and are modelled for any value.  The model is of the *)
(* build with GIT_THREADS defined; without it ll_find_deltas is a macro for *)
(* find_deltas.                                                            *)
(***************************************************************************)
EXTENDS Integers, Sequences, FiniteSets, TLC

(***************************************************************************)
(* Bounds of the model.                                                    *)
(***************************************************************************)
\* object identifiers are 1..NumIds
NumIds == 3
\* build operations (send, write_buf, write) per behaviour
MaxBuilds == 2
\* failures the environment injects per behaviour (odb read, sink, ...)
MaxFaults == 1
\* tags of the repository enumerated by git_tag_foreach in one build
MaxTags == 1
\* GIT_PACK_WINDOW of pack-objects.h, scaled down (the header's value is 10)
GIT_PACK_WINDOW == 1
\* GIT_PACK_DEPTH of pack-objects.h, scaled down (the header's value is 50)
GIT_PACK_DEPTH == 1
\* the value the repository's configuration holds for pack.deltaCacheSize
CfgDeltaCacheSize == 60
\* the value git_packbuilder_set_threads is called with in the threaded runs
NumThreads == 2
\* non-whitespace bytes in the common tail of the two names name_hash reads
MaxTail == 17
\* the slots git_packbuilder_insert adds to nr_alloc before it multiplies it
\* by 3/2, scaled down (the code's value is 1024) so that the array is full,
\* and is reallocated, after few inserts
AllocStep == 1

(***************************************************************************)
(* Program constants.                                                      *)
(***************************************************************************)
\* GIT_PACK_DELTA_CACHE_LIMIT, the default of pack.deltaCacheLimit
cache_max_small_delta_size == 1000
\* the default of pack.windowMemory
window_memory_limit == 0

\* packbuilder_config reads pack.deltaCacheSize into both fields
max_delta_cache_size == CfgDeltaCacheSize
big_file_threshold == CfgDeltaCacheSize

\* stands for 2^32 where an unsigned int subtraction wraps around
UIntWrap == 1024 * 1024

Ids == 1..NumIds

VARIABLES
  odb,              \* which object database the session reads
  object_list,      \* pb->object_list[0 .. nr_objects), a sequence of entries
  object_ix,        \* pb->object_ix: id -> index of its entry, 0 if absent
  nr_alloc,         \* pb->nr_alloc
  done,             \* pb->done
  delta_cache_size, \* pb->delta_cache_size
  nr_threads,       \* pb->nr_threads
  ctx,              \* pb->ctx: what has been fed to the rolling hash
  nr_written,       \* pb->nr_written
  pc,               \* where the session is: idle, find, threads, write, crashed
  delta_list,       \* prepare_pack's sorted scratch list
  fd,               \* find_deltas' locals, per thread (0 is the caller)
  p,                \* struct thread_params, per worker
  co,               \* ll_find_deltas' locals (the coordinator)
  stream,           \* what the sink received in the current or last build
  write_order,      \* the array compute_write_order returned last
  last,             \* the last operation called and what it returned
  builds,           \* builds started so far
  faults,           \* failures injected so far
  hist,             \* history: what happened in the current or last build
  nh,               \* name_hash's loop variable for two names read in step
  ws,               \* the bytes git__isspace answers true for
  gen               \* gen_pack_object_header's arguments and locals

vars == <<odb, object_list, object_ix, nr_alloc, done, delta_cache_size,
          nr_threads, ctx, nr_written, pc, delta_list, fd, p, co, stream,
          write_order, last, builds, faults, hist, nh, ws, gen>>

(***************************************************************************)
(* The object database: type and size of each id, by profile.              *)
(***************************************************************************)
\* "blobs" and "mixed" are the databases of the sessions; "threads" is the
\* database of the threaded delta search; "sizes" is the database of the
\* sessions that fill the entry array: blobs, one below the 50 bytes
\* prepare_pack asks for and one above big_file_threshold
OdbProfiles == {"blobs", "mixed"}

git_odb_object_type(o, id) ==
  IF o \in {"blobs", "sizes", "deep"} THEN "blob"
  ELSE IF o = "threads"
  THEN CASE id % 4 = 0 -> "tag"
         [] id % 4 = 1 -> "blob"
         [] id % 4 = 2 -> "tree"
         [] OTHER -> "commit"
  ELSE CASE id = 1 -> "commit"
         [] id = 2 -> "blob"
         [] id = 3 -> "blob"
         [] id = 4 -> "tree"
         [] OTHER -> "blob"

git_odb_object_size(o, id) ==
  IF o = "blobs" THEN 60
  ELSE IF o = "deep" THEN (IF id = 4 THEN 60 ELSE 59 - id)
  ELSE IF o = "threads" THEN 50
  ELSE IF o = "sizes"
  THEN CASE id = 2 -> 52
         [] id = 3 -> 49
         [] id = 4 -> 70
         [] OTHER -> 60
  ELSE CASE id = 1 -> 60
         [] id = 2 -> 55
         [] id = 3 -> 60
         [] id = 4 -> 60
         [] id = 5 -> 40
         [] OTHER -> 70

\* the numeric value of a git_otype, as type_size_sort compares it
TypeNum(t) ==
  CASE t = "commit" -> 1
    [] t = "tree" -> 2
    [] t = "blob" -> 3
    [] t = "tag" -> 4
    [] t = "ofs_delta" -> 6
    [] OTHER -> 7

(***************************************************************************)
(* name_hash.  A 32-bit unsigned value is the pair <<hi, lo>> of its top 8 *)
(* bits and its low 24 bits.                                               *)
(***************************************************************************)
\* git__isspace is called by name_hash and defined outside this file: the
\* bytes it answers true for are a set fixed for the whole behaviour, the
\* space always one of them
WhitespaceSets == {{32}, {9, 32}, {9, 10, 11, 12, 13, 32}}

git__isspace(c) == c \in ws

\* a fold with hash >> 1 in the place of hash >> 2
HashFoldShift1(h, c) ==
  <<((h[1] \div 2) + (c % 256)) % 256, (h[1] % 2) * 8388608 + (h[2] \div 2)>>

\* hash = (hash >> 2) + (c << 24), modulo 2^32
HashFold(h, c) ==
  <<((h[1] \div 4) + (c % 256)) % 256, (h[1] % 4) * 4194304 + (h[2] \div 4)>>

HashStep(h, c) == IF git__isspace(c) THEN h ELSE HashFold(h, c)

RECURSIVE name_hash_from(_, _)
name_hash_from(h, name) ==
  IF name = <<>> THEN h
  ELSE CHOOSE r \in {name_hash_from(hash, Tail(name)) :
                       hash \in {HashStep(h, Head(name))}} : TRUE

\* a NULL name is the string "NULL"; any other name is a sequence of bytes
name_hash(name) == IF name = "NULL" THEN <<0, 0>> ELSE name_hash_from(<<0, 0>>, name)

\* bits 26..31 of a hash
TopSix(h) == h[1] \div 4

\* name_hash's loop over two names that end in the same bytes: a and b are
\* hash after the bytes read so far, n counts the non-whitespace bytes of the
\* common tail read so far; differ and top6 tell whether a and b differed,
\* and whether their top six bits were equal, where the tail began
NoHash == [a |-> <<0, 0>>, b |-> <<0, 0>>, n |-> 0, differ |-> FALSE,
           top6 |-> TRUE]

HashGt(a, b) == a[1] > b[1] \/ (a[1] = b[1] /\ a[2] > b[2])
HashNonZero(h) == h # <<0, 0>>

\* the names the callers of insert pass
Names == {"NULL", <<97>>}

(***************************************************************************)
(* The object registry.                                                    *)
(***************************************************************************)
nr_objects == Len(object_list)

\* does the registry hold an entry of this id?
IsPresent(id) == \E i \in DOMAIN object_list : object_list[i].id = id

\* delta, delta_child and delta_sibling are pointers into pb->object_list,
\* kept here as indexes; delta_stale and links_stale tell that the pointer
\* delta, or the pointers delta_child and delta_sibling, were stored before
\* git__realloc moved the array and so point into the block it freed
NewEntry(id, t, s, h) ==
  [id |-> id, type |-> t, size |-> s, hash |-> h, delta |-> 0,
   delta_size |-> 0, delta_data |-> "null", z_delta_size |-> 0,
   written |-> FALSE, recursing |-> FALSE, tagged |-> FALSE,
   filled |-> FALSE, delta_child |-> 0, delta_sibling |-> 0,
   no_try_delta |-> FALSE, delta_stale |-> FALSE, links_stale |-> FALSE]

\* kh_get: the index of the entry of id, 0 for kh_end
kh_get_miss(ix, id) == 0

kh_get(ix, id) == ix[id]

\* the map is cleared and no entry is put again
rehash_clear_only(l) == [id \in DOMAIN object_ix |-> 0]

\* rehash: the map is cleared and every entry is put again
rehash(l) ==
  [id \in DOMAIN object_ix |->
     IF \E i \in DOMAIN l : l[i].id = id
     THEN CHOOSE i \in DOMAIN l :
            l[i].id = id /\ \A k \in DOMAIN l : l[k].id = id => k <= i
     ELSE 0]

\* pb->nr_alloc = (pb->nr_alloc + 1024) * 3 / 2, with AllocStep for 1024
GrowAlloc(a) == ((a + AllocStep) * 3) \div 2

\* nr_alloc after n inserts into an array of a slots
RECURSIVE AllocAfter(_, _)
AllocAfter(a, n) == IF a >= n THEN a ELSE AllocAfter(GrowAlloc(a), n)

\* git__realloc has moved the array: every pointer an entry holds is stale
Relocate(l) ==
  [i \in DOMAIN l |->
     [l[i] EXCEPT !.delta_stale = l[i].delta # 0,
                  !.links_stale = l[i].delta_child # 0
                                  \/ l[i].delta_sibling # 0]]

\* write_order when compute_write_order returned NULL or was not called: no
\* array (an array holds indexes of entries, which are not 0)
NoOrder == <<0>>

\* what happened in a build: find_deltas returned an error (fd_error), a read
\* of the object database failed inside try_delta (read_failed), undefined
\* behaviour was executed (ub), prepare_pack ran the search (searched), the
\* threads that took each position of delta_list in find_deltas (taken);
\* and, since that build, the id of the insert whose read failed (failed);
\* over all builds, nr_objects when prepare_pack last returned 0, -1 before
\* the first time (prepared); the fields of struct thread_params a thread
\* read or wrote while it did not hold progress_mutex, as pairs of the
\* worker the fields belong to and the field (unlocked)
NoHist == [fd_error |-> FALSE, read_failed |-> FALSE, ub |-> FALSE,
           searched |-> FALSE, taken |-> <<>>, failed |-> 0, prepared |-> -1,
           unlocked |-> {}, released_twice |-> FALSE]

(***************************************************************************)
(* The write-order planner.  A planner state is [l, wo]: the entries and   *)
(* the array filled so far.                                                *)
(***************************************************************************)
add_to_write_order_nocheck(st, po) ==
  [l |-> [st.l EXCEPT ![po].filled = TRUE], wo |-> Append(st.wo, po)]

add_to_write_order(st, po) ==
  IF st.l[po].filled THEN st
  ELSE [l |-> [st.l EXCEPT ![po].filled = TRUE], wo |-> Append(st.wo, po)]

\* a walk that leaves the siblings out
AddSiblingsNone(st, s) == st

\* for (s = po->delta_sibling; s; s = s->delta_sibling) add_to_write_order(s)
RECURSIVE AddSiblings(_, _)
AddSiblings(st, s) ==
  IF s = 0 THEN st
  ELSE AddSiblings(add_to_write_order(st, s), st.l[s].delta_sibling)

\* while (po && !po->delta_sibling) po = po->delta
RECURSIVE ClimbUp(_, _)
ClimbUp(l, po) ==
  IF po = 0 \/ l[po].delta_sibling # 0 THEN po ELSE ClimbUp(l, l[po].delta)

RECURSIVE DescendantsLoop(_, _, _)
DescendantsLoop(st, po, add_to_order) ==
  IF po = 0 THEN st
  ELSE LET e == st.l[po]
           s1 == IF add_to_order
                 THEN AddSiblings(add_to_write_order(st, po), e.delta_sibling)
                 ELSE st
       IN IF e.delta_child # 0 THEN DescendantsLoop(s1, e.delta_child, TRUE)
          ELSE IF e.delta_sibling # 0
               THEN DescendantsLoop(s1, e.delta_sibling, FALSE)
               ELSE LET up == ClimbUp(st.l, e.delta)
                    IN IF up = 0 THEN s1
                       ELSE DescendantsLoop(s1, st.l[up].delta_sibling, FALSE)

add_descendants_to_write_order(st, po) == DescendantsLoop(st, po, TRUE)

\* a family walk that starts at po itself, not at the root of its family
FamilyRootSelf(l, po) == po

\* for (root = po; root->delta; root = root->delta)
RECURSIVE FamilyRoot(_, _)
FamilyRoot(l, po) == IF l[po].delta = 0 THEN po ELSE FamilyRoot(l, l[po].delta)

add_family_to_write_order(st, po) ==
  add_descendants_to_write_order(st, FamilyRoot(st.l, po))

\* the first loop of compute_write_order
ResetPlannerFlags(l) ==
  [i \in DOMAIN l |->
     [l[i] EXCEPT !.tagged = FALSE, !.filled = FALSE,
                  !.delta_child = 0, !.delta_sibling = 0,
                  !.links_stale = FALSE]]

\* the second loop: i runs from nr_objects down to 1
RECURSIVE ConnectDeltas(_, _)
ConnectDeltas(l, i) ==
  IF i = 0 THEN l
  ELSE LET po == l[i]
       IN IF po.delta = 0 THEN ConnectDeltas(l, i - 1)
          ELSE LET l1 == [l EXCEPT ![i].delta_sibling = l[po.delta].delta_child]
               IN ConnectDeltas([l1 EXCEPT ![po.delta].delta_child = i], i - 1)

\* git_tag_foreach with cb_tag_foreach, over the tagged ids
cb_tag_foreach(l, ix, tags) ==
  [i \in DOMAIN l |->
     IF \E t \in tags : kh_get(ix, t) = i THEN [l[i] EXCEPT !.tagged = TRUE]
     ELSE l[i]]

\* index of the first tagged entry, nr_objects + 1 if there is none
\* (last_untagged, counted from 1)
FirstTagged(l) ==
  IF \E i \in DOMAIN l : l[i].tagged
  THEN CHOOSE i \in DOMAIN l : l[i].tagged /\ \A k \in 1..(i - 1) : ~l[k].tagged
  ELSE Len(l) + 1

\* loops that all ask for a tagged entry
PhaseWantsTagged(phase, e) == e.tagged

\* what each of the three filtered loops asks of an entry
PhaseWants(phase, e) ==
  CASE phase = "tagged" -> e.tagged
    [] phase = "commits" -> e.type = "commit" \/ e.type = "tag"
    [] OTHER -> e.type = "tree"

\* one of the loops "for (i = last_untagged; i < nr_objects; i++) if (...) add"
RECURSIVE PhaseLoop(_, _, _)
PhaseLoop(st, i, phase) ==
  IF i > Len(st.l) THEN st
  ELSE PhaseLoop(IF PhaseWants(phase, st.l[i]) THEN add_to_write_order(st, i)
                 ELSE st, i + 1, phase)

RECURSIVE RecencyLoop(_, _, _)
RecencyLoop(st, i, upto) ==
  IF i >= upto THEN st ELSE RecencyLoop(add_to_write_order(st, i), i + 1, upto)

RECURSIVE FamilyLoop(_, _)
FamilyLoop(st, i) ==
  IF i > Len(st.l) THEN st
  ELSE FamilyLoop(IF ~st.l[i].filled THEN add_family_to_write_order(st, i)
                  ELSE st, i + 1)

\* the state after the four non-family phases
PlanBeforeFamilies(l0) ==
  LET lu == FirstTagged(l0)
      s1 == RecencyLoop([l |-> l0, wo |-> <<>>], 1, lu)
      s2 == PhaseLoop(s1, lu, "tagged")
      s3 == PhaseLoop(s2, lu, "commits")
  IN PhaseLoop(s3, lu, "trees")

\* compute_write_order, given the tagged ids: [l, wo, ok]
compute_write_order(l, ix, tags) ==
  LET l0 == cb_tag_foreach(ConnectDeltas(ResetPlannerFlags(l), Len(l)), ix, tags)
      s5 == FamilyLoop(PlanBeforeFamilies(l0), FirstTagged(l0))
  IN [l |-> s5.l, wo |-> s5.wo, ok |-> Len(s5.wo) = Len(l)]

(***************************************************************************)
(* The pack writer.  A writer state is [l, buf, ctx, nw, err, status].     *)
(***************************************************************************)
\* what write_object emits for entry po
PackRecord(l, po) ==
  LET e == l[po]
  IN [kind |-> "obj",
      type |-> IF e.delta # 0 THEN "ref_delta" ELSE e.type,
      id |-> e.id,
      base |-> IF e.delta # 0 THEN l[e.delta].id ELSE 0,
      data |-> IF e.z_delta_size # 0
               THEN (IF e.delta # 0 /\ e.delta_data = "z" THEN "cached"
                     ELSE "stale")
               ELSE "deflated"]

\* the ids write_object reads from the object database for po
WriteReads(l, po) ==
  LET e == l[po]
  IN IF e.delta # 0
     THEN (IF e.delta_data # "null" THEN {} ELSE {l[e.delta].id, e.id})
     ELSE {e.id}

\* write_object releases the cached delta of po a second time: with
\* z_delta_size = 0, data is po->delta_data, freed after git__compress
\* (line 292) and again at line 302
ReleasedTwice(e) == e.delta # 0 /\ e.delta_data # "null" /\ e.z_delta_size = 0

write_object(st, po, badId) ==
  IF badId \in WriteReads(st.l, po) THEN [st EXCEPT !.err = TRUE]
  ELSE LET r == PackRecord(st.l, po)
       IN [st EXCEPT !.buf = Append(st.buf, r),
                     !.twice = st.twice \/ ReleasedTwice(st.l[po]),
                     !.ctx = Append(st.ctx, r),
                     !.l[po].delta_data =
                        IF st.l[po].delta_data # "null" THEN "freed" ELSE "null",
                     !.nw = st.nw + 1]

\* the value the switch in write_one reads from *status
StatusRead(st, garbage) == IF st.status = "uninit" THEN garbage ELSE st.status

RECURSIVE write_one(_, _, _, _)
write_one(st, po, badId, garbage) ==
  LET e == st.l[po]
  IN IF e.recursing THEN [st EXCEPT !.status = "RECURSIVE"]
     ELSE IF e.written THEN [st EXCEPT !.status = "SKIP"]
     ELSE LET s1 == IF e.delta # 0
                    THEN LET r == write_one([st EXCEPT !.l[po].recursing = TRUE],
                                            e.delta, badId, garbage)
                         IN IF ~r.err /\ StatusRead(r, garbage) = "RECURSIVE"
                            THEN [r EXCEPT !.l[po].delta = 0]
                            ELSE r
                    ELSE st
          IN IF s1.err THEN s1
             ELSE write_object([s1 EXCEPT !.l[po].written = TRUE,
                                          !.l[po].recursing = FALSE],
                               po, badId)

\* the for loop of write_pack over write_order[i..]; the sink fails at the
\* call that delivers element sinkAt (0: never)
RECURSIVE WriteLoop(_, _, _, _, _, _)
WriteLoop(st, wo, i, badId, garbage, sinkAt) ==
  IF i > Len(wo) \/ st.err THEN st
  ELSE LET s1 == write_one(st, wo[i], badId, garbage)
       IN IF s1.err THEN s1
          ELSE IF sinkAt = i THEN [s1 EXCEPT !.err = TRUE, !.buf = <<>>]
          ELSE WriteLoop([s1 EXCEPT !.out = s1.out \o s1.buf, !.buf = <<>>],
                         wo, i + 1, badId, garbage, sinkAt)

(***************************************************************************)
(* The delta search: helpers of prepare_pack, find_deltas and try_delta.   *)
(***************************************************************************)
\* prepare_pack calls ll_find_deltas with GIT_PACK_WINDOW + 1, GIT_PACK_DEPTH
window == GIT_PACK_WINDOW + 1
depth == GIT_PACK_DEPTH

\* get_object_details
get_object_details(l) ==
  [i \in DOMAIN l |->
     IF big_file_threshold < l[i].size THEN [l[i] EXCEPT !.no_try_delta = TRUE]
     ELSE l[i]]

type_size_sort(l, a, b) ==
  IF TypeNum(l[a].type) > TypeNum(l[b].type) THEN -1
  ELSE IF TypeNum(l[a].type) < TypeNum(l[b].type) THEN 1
  ELSE IF HashGt(l[a].hash, l[b].hash) THEN -1
  ELSE IF HashGt(l[b].hash, l[a].hash) THEN 1
  ELSE IF l[a].size > l[b].size THEN -1
  ELSE IF l[a].size < l[b].size THEN 1
  ELSE IF a < b THEN -1
  ELSE IF a > b THEN 1 ELSE 0

\* git__tsort with type_size_sort over a set of entries
RECURSIVE git__tsort(_, _)
git__tsort(l, S) ==
  IF S = {} THEN <<>>
  ELSE LET m == CHOOSE x \in S : \A y \in S \ {x} : type_size_sort(l, x, y) < 0
       IN <<m>> \o git__tsort(l, S \ {m})

\* every entry, whatever its size
DeltaCandidatesAll(l) == DOMAIN l

\* the entries prepare_pack puts into delta_list
DeltaCandidates(l) == {i \in DOMAIN l : ~(l[i].size < 50) /\ ~l[i].no_try_delta}

RECURSIVE check_delta_limit(_, _, _)
RECURSIVE CheckLimitLoop(_, _, _, _)
check_delta_limit(l, me, n) == CheckLimitLoop(l, l[me].delta_child, n, n)

CheckLimitLoop(l, child, n, m) ==
  IF child = 0 THEN m
  ELSE LET c == check_delta_limit(l, child, n + 1)
       IN CheckLimitLoop(l, l[child].delta_sibling, n, IF m < c THEN c ELSE m)

\* one slot of the window (struct unpacked)
EmptySlot == [object |-> 0, data |-> FALSE, index |-> FALSE, depth |-> 0]

\* git_delta_sizeof_index of an index built over a source of this size
git_delta_sizeof_index(size) == 16 + size \div 4

\* what free_unpacked returns for slot n
free_unpacked(l, n) ==
  (IF n.index THEN git_delta_sizeof_index(l[n.object].size) ELSE 0)
  + (IF n.data THEN l[n.object].size ELSE 0)

\* the sizes git_delta_create can return under max_size
DeltaChoices == {5, 10}

\* the sizes git__compress can return for an input of n bytes
ZSizes(n) == {n \div 2 + 1, n + 11}

delta_cacheable(cache, src_size, trg_size, delta_size) ==
  IF max_delta_cache_size # 0
     /\ (cache + delta_size < 0 \/ cache + delta_size > max_delta_cache_size)
  THEN FALSE
  ELSE IF delta_size < cache_max_small_delta_size THEN TRUE
  ELSE (src_size \div 1048576) + (trg_size \div 2097152) > (delta_size \div 1024)

\* what the environment does during one call of try_delta: which step
\* fails, if any, and the size of the delta git_delta_create builds (0: none)
TryEnvs ==
  [fault : {"none", "read_trg", "size_src", "index"},
   ds : {0} \cup DeltaChoices]

\* the cache section of try_delta and the assignments that follow it
AcceptDelta(r, trg, src, to, so, delta_size) ==
  LET held == to.delta_data # "null"
      c1 == IF held THEN r.cache - to.delta_size ELSE r.cache
      keep == delta_cacheable(c1, so.size, to.size, delta_size)
  IN [r EXCEPT !.ret = 1,
               !.ub = r.ub \/ to.delta_data = "freed",
               !.cache = IF keep THEN c1 + delta_size ELSE c1,
               !.l[trg.object].delta_data = IF keep THEN "raw" ELSE "null",
               !.l[trg.object].delta = src.object,
               !.l[trg.object].delta_stale = FALSE,
               !.l[trg.object].delta_size = delta_size,
               !.trg.depth = src.depth + 1]

\* the operands of try_delta's size limit (lines 701-711); the two depth
\* terms are unsigned int
SizeLimitBase(to) ==
  IF to.delta = 0 THEN to.size \div 2 - 20 ELSE to.delta_size

RefDepth(to, trg) == IF to.delta = 0 THEN 1 ELSE trg.depth

SizeLimitFactor(src, max_depth) == (max_depth - src.depth) % UIntWrap

SizeLimitDivisor(to, trg, max_depth) ==
  (max_depth - RefDepth(to, trg) + 1) % UIntWrap

try_delta(l, cache, trg, src, max_depth, mem, env) ==
  LET to == l[trg.object]
      so == l[src.object]
      trg_size == to.size
      src_size == so.size
      divisor == SizeLimitDivisor(to, trg, max_depth)
      r0 == [ret |-> 0, err |-> FALSE, trg |-> trg, src |-> src, l |-> l,
             cache |-> cache, mem |-> mem, ub |-> FALSE, fault |-> FALSE,
             made |-> FALSE]
      \* a division by 0 that does not trap gives 0
      max_size == IF divisor = 0 THEN 0
                  ELSE (SizeLimitBase(to) * SizeLimitFactor(src, max_depth))
                         \div divisor
      sizediff == IF src_size < trg_size THEN trg_size - src_size ELSE 0
      \* "Load data if not already done", target then source
      r1 == IF trg.data THEN r0
            ELSE IF env.fault = "read_trg"
                 THEN [r0 EXCEPT !.err = TRUE, !.fault = TRUE]
            ELSE IF env.fault = "size_trg"
                 THEN [r0 EXCEPT !.err = TRUE, !.fault = TRUE, !.trg.data = TRUE]
            ELSE [r0 EXCEPT !.trg.data = TRUE, !.mem = r0.mem + trg_size]
      r2 == IF r1.err \/ src.data THEN r1
            ELSE IF env.fault = "read_src"
                 THEN [r1 EXCEPT !.err = TRUE, !.fault = TRUE]
            ELSE IF env.fault = "size_src"
                 THEN [r1 EXCEPT !.err = TRUE, !.fault = TRUE, !.src.data = TRUE]
            ELSE [r1 EXCEPT !.src.data = TRUE, !.mem = r1.mem + src_size]
      \* git_delta_create_index
      r3 == IF r2.err \/ src.index THEN r2
            ELSE IF env.fault = "index" THEN [r2 EXCEPT !.fault = TRUE]
            ELSE [r2 EXCEPT !.src.index = TRUE,
                            !.mem = r2.mem + git_delta_sizeof_index(src_size)]
  IN IF to.type # so.type THEN [r0 EXCEPT !.ret = -1]
     ELSE IF src.depth >= max_depth THEN r0
     ELSE IF divisor = 0 THEN [r0 EXCEPT !.ub = TRUE]
     ELSE IF max_size = 0 THEN r0
     ELSE IF sizediff >= max_size THEN r0
     ELSE IF trg_size < src_size \div 32 THEN r0
     ELSE IF r3.err \/ ~r3.src.index THEN r3
     ELSE IF env.ds = 0 THEN r3
     ELSE IF env.ds > max_size THEN [r3 EXCEPT !.made = TRUE, !.err = TRUE,
                                               !.ret = -2]
     ELSE IF to.delta # 0 /\ env.ds = to.delta_size
             /\ src.depth + 1 >= trg.depth
          THEN [r3 EXCEPT !.made = TRUE]
     ELSE AcceptDelta([r3 EXCEPT !.made = TRUE], r3.trg, r3.src, to, so, env.ds)

\* the eviction loop under window_memory_limit: [array, mem, count]
RECURSIVE EvictLoop(_, _, _, _, _)
EvictLoop(l, array, mem, count, idx) ==
  IF window_memory_limit # 0 /\ mem > window_memory_limit /\ count > 1
  THEN LET tail == (idx + window - count) % window
       IN EvictLoop(l, [array EXCEPT ![tail] = EmptySlot],
                    mem - free_unpacked(l, array[tail]), count - 1, idx)
  ELSE [array |-> array, mem |-> mem, count |-> count]

\* max_depth of find_deltas: unsigned, so the subtraction wraps around
MaxDepthFor(l, po) ==
  IF l[po].delta_child = 0 THEN depth
  ELSE LET lim == check_delta_limit(l, po, 0)
       IN IF lim > depth THEN UIntWrap + depth - lim ELSE depth - lim

\* "next:" of find_deltas
AdvanceWindow(f) ==
  [f EXCEPT !.idx = IF f.idx + 1 >= window THEN 0 ELSE f.idx + 1,
            !.count = IF f.count + 1 < window THEN f.count + 1 ELSE f.count]

\* is there another slot for the inner loop to try after j?
HasTry(f) ==
  f.j - 1 > 0 /\ f.array[(f.idx + f.j - 1) % window].object # 0

\* "Move the best delta base up in the window"
RotateWindow(array, idx, best_base) ==
  LET dist == (window + idx - best_base) % window
  IN [i \in DOMAIN array |->
        IF i = idx THEN array[best_base]
        ELSE IF (window + i - best_base) % window < dist
             THEN array[(i + 1) % window]
             ELSE array[i]]

\* the same loop run with best_base = -1: it copies array[0 .. idx] one slot
\* down, starting at array[-1], and stores what array[-1] held into array[idx]
RotateWindowNoBase(array, idx, garbage) ==
  LET dist == (idx + 1) % window
  IN IF dist = 0 THEN array
     ELSE [i \in DOMAIN array |->
             IF i = idx THEN garbage
             ELSE IF i < idx THEN array[i + 1]
             ELSE array[i]]

NewFrame(list) ==
  [array |-> [i \in 0..(window - 1) |-> EmptySlot], idx |-> 0, count |-> 0,
   mem_usage |-> 0, list |-> list, po |-> 0, max_depth |-> 0, j |-> 0,
   best_base |-> -1, pc |-> "take", error |-> FALSE]

NoFrame == [NewFrame(0) EXCEPT !.pc = "off"]

\* gen_pack_object_header not called
NoHeader == [type |-> 0, arg |-> {}, size |-> {}, c |-> 0, hdr |-> <<>>,
             pc |-> "off", ret |-> 0]

(***************************************************************************)
(* The session: git_packbuilder_new, then inserts and builds.              *)
(***************************************************************************)
NoParams ==
  [list |-> 0, list_size |-> 0, remaining |-> 0, working |-> 1,
   data_ready |-> 0, pc |-> "none"]

NoCoordinator == [pc |-> "off", i |-> 0, active_threads |-> 0, target |-> 0,
                  victim |-> 0, sub_size |-> 0, ret |-> 0]

\* the state git_packbuilder_new leaves, but for the object database
InitSessionButHeader ==
  /\ object_list = <<>>
  /\ object_ix = [id \in Ids |-> 0]
  /\ nr_alloc = 0
  /\ done = FALSE
  /\ delta_cache_size = 0
  /\ nr_threads = 1
  /\ ctx = <<>>
  /\ nr_written = 0
  /\ pc = "idle"
  /\ delta_list = <<>>
  /\ fd = [t \in {0} |-> NoFrame]
  /\ p = [t \in {0} |-> NoParams]
  /\ co = NoCoordinator
  /\ stream = <<>>
  /\ write_order = NoOrder
  /\ last = [op |-> "new", id |-> 0, ret |-> 0]
  /\ builds = 0
  /\ faults = 0
  /\ hist = NoHist

InitSession == InitSessionButHeader /\ gen = NoHeader

\* the names inserted hold no byte of WhitespaceSets
Init == odb \in OdbProfiles /\ InitSession /\ nh = NoHash /\ ws = {32}

\* git_packbuilder_insert(pb, oid, name); readOk: git_odb_read succeeds;
\* moved: git__realloc returns a block at another address.
\* The callers of the model hand in new ids in increasing order (the ids of a
\* profile differ in nothing but what the profile says of them)
git_packbuilder_insert(id, name, readOk, moved) ==
  /\ pc = "idle"
  /\ IsPresent(id) \/ \A i \in DOMAIN object_list : object_list[i].id < id
  /\ readOk \/ faults < MaxFaults
  /\ IF kh_get(object_ix, id) # 0
     THEN /\ readOk /\ ~moved
          /\ last' = [op |-> "insert", id |-> id, ret |-> 0]
          /\ UNCHANGED <<object_list, object_ix, nr_alloc, done, faults, hist>>
     ELSE LET grow == nr_objects >= nr_alloc
              l1 == IF moved THEN Relocate(object_list) ELSE object_list
              po == NewEntry(id, git_odb_object_type(odb, id),
                             git_odb_object_size(odb, id), name_hash(name))
          IN /\ moved => grow /\ nr_objects > 0
             /\ nr_alloc' = IF grow THEN GrowAlloc(nr_alloc) ELSE nr_alloc
             /\ IF readOk
                THEN /\ object_list' = Append(l1, po)
                     /\ object_ix' = [(IF grow THEN rehash(l1)
                                       ELSE object_ix)
                                      EXCEPT ![id] = nr_objects + 1]
                     /\ done' = FALSE
                     /\ last' = [op |-> "insert", id |-> id, ret |-> 0]
                     /\ UNCHANGED <<faults, hist>>
                ELSE /\ object_list' = l1
                     /\ object_ix' = IF grow THEN rehash(l1) ELSE object_ix
                     /\ last' = [op |-> "insert", id |-> id, ret |-> -1]
                     /\ faults' = faults + 1
                     /\ hist' = [hist EXCEPT !.failed = id]
                     /\ UNCHANGED done
  /\ UNCHANGED <<odb, delta_cache_size, nr_threads, ctx, nr_written, pc,
                 delta_list, fd, p, co, stream, write_order, builds, nh, ws, gen>>

Insert == \E id \in Ids, name \in Names, readOk \in BOOLEAN, moved \in BOOLEAN :
            git_packbuilder_insert(id, name, readOk, moved)

\* the builds a session is followed for: more of them over the profile of
\* the long sessions
BuildLimit == IF odb = "deep" THEN MaxBuilds + 2 ELSE MaxBuilds

\* prepare_pack finds the registry empty
NothingToDoWhenEmpty == nr_objects = 0

\* "nothing to do" of prepare_pack
NothingToDo == nr_objects = 0 \/ done

\* The head of a build (git_packbuilder_send, git_packbuilder_write_buf,
\* git_packbuilder_write): prepare_pack up to the call of find_deltas
prepare_pack ==
  /\ pc = "idle"
  /\ builds < BuildLimit
  /\ builds' = builds + 1
  /\ last' = [op |-> "build", id |-> 0, ret |-> 0]
  /\ stream' = <<>>
  /\ write_order' = NoOrder
  /\ IF NothingToDo
     THEN /\ pc' = "write"
          /\ hist' = [NoHist EXCEPT !.prepared = nr_objects]
          /\ UNCHANGED <<object_list, delta_list, fd, p, done>>
     ELSE LET l1 == get_object_details(object_list)
              sorted == git__tsort(l1, DeltaCandidates(l1))
              n == Len(sorted)
          IN /\ object_list' = l1
             /\ delta_list' = sorted
             /\ hist' = [NoHist EXCEPT !.searched = TRUE,
                                       !.taken = [k \in 1..n |-> <<>>],
                                       !.prepared = IF n > 1 THEN hist.prepared
                                                    ELSE nr_objects]
             /\ IF n > 1
                THEN /\ nr_threads <= 1
                     /\ pc' = "find"
                     /\ fd' = [t \in {0} |-> NewFrame(1)]
                     /\ p' = [t \in {0} |->
                                [NoParams EXCEPT !.list = 1, !.list_size = n,
                                                 !.remaining = n]]
                     /\ UNCHANGED done
                ELSE /\ pc' = "write"
                     /\ done' = TRUE
                     /\ UNCHANGED <<fd, p>>
  /\ UNCHANGED <<odb, object_ix, nr_alloc, delta_cache_size, nr_threads, ctx,
                 nr_written, co, faults, nh, ws, gen>>

\* thread t is inside find_deltas
FDActive(t) ==
  /\ t \in DOMAIN fd
  /\ \/ t = 0 /\ pc = "find"
     \/ t > 0 /\ pc = "threads" /\ p[t].pc = "run"

\* find_deltas: from the top of the outer loop to the inner loop.  An entry
\* of a build before the array moved still holds its delta_child, and
\* check_delta_limit follows it into the freed block
FDTake(t) ==
  /\ FDActive(t)
  /\ fd[t].pc = "take"
  /\ LET f == fd[t]
     IN IF p[t].remaining = 0
        THEN /\ fd' = [fd EXCEPT ![t].pc = "ret", ![t].error = FALSE]
             /\ UNCHANGED <<p, hist, pc>>
        ELSE \E crash \in BOOLEAN :
             LET po == delta_list[f.list]
                 n == f.array[f.idx]
                 mem1 == f.mem_usage - free_unpacked(object_list, n)
                 a1 == [f.array EXCEPT ![f.idx] = [EmptySlot EXCEPT !.object = po]]
                 ev == EvictLoop(object_list, a1, mem1, f.count, f.idx)
                 md == MaxDepthFor(object_list, po)
                 f1 == [f EXCEPT !.list = f.list + 1, !.po = po,
                                 !.array = ev.array, !.mem_usage = ev.mem,
                                 !.count = ev.count, !.max_depth = md,
                                 !.j = window, !.best_base = -1]
                 ub == object_list[po].delta_child # 0
                       /\ object_list[po].links_stale
             IN /\ crash => ub
                /\ p' = [p EXCEPT ![t].remaining = p[t].remaining - 1]
                /\ hist' = [hist EXCEPT !.ub = hist.ub \/ ub,
                                        !.taken[f.list] = Append(@, t)]
                /\ pc' = IF crash THEN "crashed" ELSE pc
                /\ fd' = [fd EXCEPT ![t] =
                            IF object_list[po].delta_child # 0 /\ md = 0
                            THEN AdvanceWindow(f1)
                            ELSE [f1 EXCEPT !.pc = IF HasTry(f1) THEN "try"
                                                   ELSE "finish"]]
  /\ UNCHANGED <<odb, object_list, object_ix, nr_alloc, done, delta_cache_size,
                 nr_threads, ctx, nr_written, delta_list, co, stream,
                 write_order, last, builds, faults, nh, ws, gen>>

\* find_deltas: one pass of the inner loop, that is one call of try_delta
FDTry(t) ==
  /\ FDActive(t)
  /\ fd[t].pc = "try"
  /\ \E env \in TryEnvs, crash \in BOOLEAN :
       LET f == fd[t]
           j1 == f.j - 1
           other_idx == (f.idx + j1) % window
           r == try_delta(object_list, delta_cache_size, f.array[f.idx],
                          f.array[other_idx], f.max_depth, f.mem_usage, env)
           a1 == [f.array EXCEPT ![f.idx] = r.trg, ![other_idx] = r.src]
           f1 == [f EXCEPT !.array = a1, !.mem_usage = r.mem, !.j = j1,
                           !.best_base = IF r.ret > 0 THEN other_idx
                                         ELSE f.best_base]
       IN /\ r.ret # -2
          /\ env.fault = "none" \/ (r.fault /\ faults < MaxFaults)
          /\ env.ds = 0 \/ r.made
          /\ crash => r.ub
          /\ object_list' = r.l
          /\ delta_cache_size' = r.cache
          /\ faults' = IF r.fault THEN faults + 1 ELSE faults
          /\ hist' = [hist EXCEPT !.ub = hist.ub \/ r.ub,
                                  !.read_failed = hist.read_failed \/ r.err]
          /\ pc' = IF crash THEN "crashed" ELSE pc
          /\ fd' = [fd EXCEPT ![t] =
                      IF r.err THEN [f1 EXCEPT !.pc = "ret", !.error = TRUE]
                      ELSE IF r.ret < 0 \/ ~HasTry(f1)
                           THEN [f1 EXCEPT !.pc = "finish"]
                           ELSE f1]
  /\ UNCHANGED <<odb, object_ix, nr_alloc, done, nr_threads, ctx, nr_written,
                 delta_list, p, co, stream, write_order, last, builds, nh, ws, gen>>

\* find_deltas: from the end of the inner loop to the end of the outer
\* loop's body.  zs: the size git__compress returns, 0 when it fails
FDFinish(t) ==
  /\ FDActive(t)
  /\ fd[t].pc = "finish"
  /\ \E zs \in {0} \cup ZSizes(object_list[fd[t].po].delta_size),
        crash \in BOOLEAN, garbage \in {EmptySlot} :
       LET f == fd[t]
           po == f.po
           e == object_list[po]
           cached == e.delta_data # "null"
           ub1 == e.delta_data = "freed"
                  \/ (e.delta_data = "z" /\ e.z_delta_size < e.delta_size)
           l1 == IF cached /\ zs # 0
                 THEN [object_list EXCEPT ![po].delta_data = "z",
                                          ![po].z_delta_size = zs]
                 ELSE object_list
           evict == e.delta # 0 /\ f.max_depth <= f.array[f.idx].depth
           rotate == e.delta # 0 /\ ~evict
           ub2 == rotate /\ f.best_base = -1
           f1 == IF evict THEN f
                 ELSE IF rotate
                      THEN AdvanceWindow(
                             [f EXCEPT !.array =
                                IF f.best_base = -1
                                THEN RotateWindowNoBase(f.array, f.idx, garbage)
                                ELSE RotateWindow(f.array, f.idx, f.best_base)])
                      ELSE AdvanceWindow(f)
       IN /\ cached \/ zs = 0
          /\ IF cached /\ zs = 0
             THEN \* git__compress fails: goto on_error
                  /\ faults < MaxFaults
                  /\ ~crash
                  /\ faults' = faults + 1
                  /\ hist' = [hist EXCEPT !.ub = hist.ub \/ ub1]
                  /\ fd' = [fd EXCEPT ![t].pc = "ret", ![t].error = TRUE]
                  /\ UNCHANGED <<object_list, delta_cache_size, pc>>
             ELSE /\ crash => (ub1 /\ cached) \/ ub2
                  /\ object_list' = l1
                  /\ delta_cache_size' =
                       IF cached THEN delta_cache_size - e.delta_size + zs
                       ELSE delta_cache_size
                  /\ hist' = [hist EXCEPT !.ub = hist.ub \/ (ub1 /\ cached) \/ ub2]
                  /\ pc' = IF crash THEN "crashed" ELSE pc
                  /\ fd' = [fd EXCEPT ![t] = [f1 EXCEPT !.pc = "take"]]
                  /\ UNCHANGED faults
  /\ UNCHANGED <<odb, object_ix, nr_alloc, done, nr_threads, ctx, nr_written,
                 delta_list, p, co, stream, write_order, last, builds, nh, ws, gen>>

\* ll_find_deltas with nr_threads <= 1: find_deltas has returned, its result
\* is dropped, and prepare_pack goes on to set done
LLFindDeltasSingle ==
  /\ pc = "find"
  /\ fd[0].pc = "ret"
  /\ done' = TRUE
  /\ pc' = "write"
  /\ hist' = [hist EXCEPT !.fd_error = fd[0].error, !.prepared = nr_objects]
  /\ fd' = [fd EXCEPT ![0] = NoFrame]
  /\ UNCHANGED <<odb, object_list, object_ix, nr_alloc, delta_cache_size,
                 nr_threads, ctx, nr_written, delta_list, p, co, stream,
                 write_order, last, builds, faults, nh, ws, gen>>

\* what can go wrong in one call of write_pack: nothing, git_tag_foreach,
\* the read of one id from the object database, or the sink at its k-th call
\* (0: the header, i: the records of write_order[i], nr_objects + 1: the digest)
WriteFaults ==
  {[kind |-> "none", at |-> 0], [kind |-> "tags", at |-> 0]}
  \cup [kind : {"read"}, at : Ids]
  \cup [kind : {"sink"}, at : 0..(nr_objects + 1)]

PackHeader == [kind |-> "hdr", count |-> nr_objects]

\* the rolling hash's state when write_pack starts: pb->ctx is initialised by
\* git_packbuilder_new only, so it still holds what earlier builds fed it
\* (kept as one token)
CtxAtStart == IF ctx = <<>> THEN <<>> ELSE <<[kind |-> "earlier"]>>

\* the loop of write_pack over the computed order
WriteRecords(plan, wf, garbage) ==
  WriteLoop([l |-> plan.l, buf |-> <<>>, out |-> <<PackHeader>>,
             ctx |-> Append(CtxAtStart, PackHeader), nw |-> 0, err |-> FALSE,
             status |-> "uninit", twice |-> FALSE],
            plan.wo, 1, IF wf.kind = "read" THEN wf.at ELSE 0, garbage,
            IF wf.kind = "sink" THEN wf.at ELSE 0)

\* compute_write_order follows po->delta of every delta (lines 458-459)
StalePlan ==
  \E i \in DOMAIN object_list :
    object_list[i].delta # 0 /\ object_list[i].delta_stale

\* write_pack, the tail of a build.  tags: the ids the repository's tags
\* point at; garbage: what the uninitialised status of write_pack holds;
\* malloc0: whether git__malloc(0) returns NULL; crash: the build stops at
\* the write through a stale pointer (otherwise it goes on as it does when
\* the block is still in place) or at the second release of a block
write_pack(tags, wf, garbage, malloc0, crash) ==
  /\ pc = "write"
  /\ LET plan == compute_write_order(object_list, object_ix, tags)
         w == WriteRecords(plan, wf, garbage)
         failed == wf.kind # "none"
         digest == [kind |-> "digest", of |-> w.ctx]
         twice == wf.kind # "tags" /\ ~malloc0 /\ plan.ok
                  /\ wf # [kind |-> "sink", at |-> 0] /\ w.twice
     IN /\ failed => faults < MaxFaults
        /\ malloc0 => nr_objects = 0 /\ ~failed
        /\ crash => wf.kind = "none" /\ ~malloc0 /\ (StalePlan \/ twice)
        /\ wf.kind = "read" => w.err
        /\ hist' = [hist EXCEPT !.ub = hist.ub \/ StalePlan \/ twice,
                                !.released_twice = twice]
        /\ faults' = IF failed THEN faults + 1 ELSE faults
        /\ IF crash
           THEN UNCHANGED <<object_list, write_order, stream, ctx, nr_written,
                            last>>
           ELSE IF wf.kind = "tags" \/ malloc0
           THEN \* compute_write_order returns NULL
                /\ object_list' =
                     IF malloc0 THEN object_list
                     ELSE cb_tag_foreach(
                            ConnectDeltas(ResetPlannerFlags(object_list),
                                          nr_objects), object_ix, tags)
                /\ last' = [last EXCEPT !.ret = -1]
                /\ UNCHANGED <<write_order, stream, ctx, nr_written>>
           ELSE IF ~plan.ok
           THEN /\ object_list' = plan.l
                /\ last' = [last EXCEPT !.ret = -1]
                /\ UNCHANGED <<write_order, stream, ctx, nr_written>>
           ELSE IF wf = [kind |-> "sink", at |-> 0]
           THEN \* the sink refuses the header
                /\ object_list' = plan.l
                /\ write_order' = plan.wo
                /\ last' = [last EXCEPT !.ret = -1]
                /\ UNCHANGED <<stream, ctx, nr_written>>
           ELSE /\ object_list' = w.l
                /\ write_order' = plan.wo
                /\ nr_written' = w.nw
                /\ IF w.err
                   THEN /\ stream' = w.out
                        /\ ctx' = w.ctx
                        /\ last' = [last EXCEPT !.ret = -1]
                   ELSE \* git_hash_final, then the digest goes to the sink
                        /\ ctx' = Append(w.ctx, [kind |-> "final"])
                        /\ IF wf = [kind |-> "sink", at |-> nr_objects + 1]
                           THEN /\ stream' = w.out
                                /\ last' = [last EXCEPT !.ret = -1]
                           ELSE /\ stream' = Append(w.out, digest)
                                /\ last' = [last EXCEPT !.ret = 0]
  /\ pc' = IF crash THEN "crashed" ELSE "idle"
  /\ UNCHANGED <<odb, object_ix, nr_alloc, done, delta_cache_size, nr_threads,
                 delta_list, fd, p, co, builds, nh, ws, gen>>

\* the sets of ids git_tag_foreach can report in a repository of profile o
TagSets(o) ==
  IF o \in {"blobs", "sizes", "deep"} THEN {{}}
  ELSE {T \in SUBSET Ids : Cardinality(T) <= MaxTags}

WritePack ==
  \E tags \in TagSets(odb), wf \in WriteFaults,
     garbage \in {"RECURSIVE", "WRITTEN"}, malloc0 \in BOOLEAN,
     crash \in BOOLEAN :
       write_pack(tags, wf, garbage, malloc0, crash)

Next ==
  \/ Insert
  \/ prepare_pack
  \/ FDTake(0)
  \/ FDTry(0)
  \/ FDFinish(0)
  \/ LLFindDeltasSingle
  \/ WritePack

Spec == Init /\ [][Next]_vars

(***************************************************************************)
(* Sessions that fill the entry array: one id more than Ids, no failure of *)
(* the environment, so that an insert after a build finds the array full.  *)
(***************************************************************************)
GrowIds == 1..(NumIds + 1)

InitGrow ==
  /\ odb = "sizes"
  /\ object_list = <<>>
  /\ object_ix = [id \in GrowIds |-> 0]
  /\ nr_alloc = 0
  /\ done = FALSE
  /\ delta_cache_size = 0
  /\ nr_threads = 1
  /\ ctx = <<>>
  /\ nr_written = 0
  /\ pc = "idle"
  /\ delta_list = <<>>
  /\ fd = [t \in {0} |-> NoFrame]
  /\ p = [t \in {0} |-> NoParams]
  /\ co = NoCoordinator
  /\ stream = <<>>
  /\ write_order = NoOrder
  /\ last = [op |-> "new", id |-> 0, ret |-> 0]
  /\ builds = 0
  /\ faults = MaxFaults
  /\ hist = NoHist
  /\ nh = NoHash
  /\ gen = NoHeader
  /\ ws = {32}

InsertGrow == \E id \in GrowIds, moved \in BOOLEAN :
                git_packbuilder_insert(id, "NULL", TRUE, moved)

NextGrow ==
  \/ InsertGrow
  \/ prepare_pack
  \/ FDTake(0)
  \/ FDTry(0)
  \/ FDFinish(0)
  \/ LLFindDeltasSingle
  \/ WritePack

SpecGrow == InitGrow /\ [][NextGrow]_vars

\* an entry prepare_pack keeps out of the delta search
TooSmallOrTooBig(e) == e.size < 50 \/ e.size > big_file_threshold

\* C13: an entry whose size is below 50 or above big_file_threshold never
\* has a delta base and is never the delta base of another entry; a record
\* of it in a stream is a base record and no REF_DELTA record names it as
\* its base, and the first build of a session, when it succeeds, emits it
C13_SmallAndBigEntriesAreBases ==
  \A i \in DOMAIN object_list :
    TooSmallOrTooBig(object_list[i]) =>
      /\ object_list[i].delta = 0
      /\ \A k \in DOMAIN object_list : object_list[k].delta # i
      /\ \A r \in DOMAIN stream :
           stream[r].kind = "obj" =>
             /\ stream[r].id = object_list[i].id =>
                  stream[r].type = object_list[i].type
             /\ stream[r].base # object_list[i].id
      /\ (pc = "idle" /\ last.op = "build" /\ last.ret = 0 /\ builds = 1) =>
           \E r \in DOMAIN stream :
             /\ stream[r].kind = "obj"
             /\ stream[r].id = object_list[i].id

\* a first build has written a small entry, a big one and a delta
C13_Witness ==
  /\ pc = "idle" /\ last.op = "build" /\ last.ret = 0 /\ builds = 1
  /\ \E i \in DOMAIN object_list : object_list[i].size < 50
  /\ \E i \in DOMAIN object_list : object_list[i].size > big_file_threshold
  /\ \E r \in DOMAIN stream :
       stream[r].kind = "obj" /\ stream[r].type = "ref_delta"

\* C12: in every reachable state of a session, inserts that regrow and
\* relocate the entry array after a build included, the delta base of an
\* entry, if set, is a currently registered entry other than the entry
\* itself and of the entry's own type
C12_DeltaBaseIsRegisteredEntry ==
  \A i \in DOMAIN object_list :
    object_list[i].delta # 0 =>
      /\ ~object_list[i].delta_stale
      /\ object_list[i].delta \in DOMAIN object_list
      /\ object_list[i].delta # i
      /\ object_list[object_list[i].delta].type = object_list[i].type

(***************************************************************************)
(* The threaded delta search: ll_find_deltas with nr_threads > 1 and its   *)
(* workers (threaded_find_deltas).  Worker t is p[t - 1] of the code.      *)
(***************************************************************************)
\* the objects of the threaded runs: two segments of 2 * window and one
\* object more, so that the last segment is long enough to be stolen from
ThreadObjs == 4 * window + 1
Workers == 1..NumThreads

\* the ids inserted with the name <<97>>, the others with a NULL name: none;
\* the trees and the first commit; the trees and the commits
NamePatterns == {{}, {2, 3, 6}, {2, 3, 6, 7}}

\* the segment is left as the division made it
SplitOnPathNone(l, list, sub_size, list_size) == sub_size

\* "try to split chunks on path boundaries": the segment grows while the
\* entry after it has the hash of its last entry
RECURSIVE SplitOnPath(_, _, _, _)
SplitOnPath(l, list, sub_size, list_size) ==
  IF sub_size # 0 /\ sub_size < list_size
     /\ HashNonZero(l[delta_list[list + sub_size]].hash)
     /\ l[delta_list[list + sub_size]].hash
          = l[delta_list[list + sub_size - 1]].hash
  THEN SplitOnPath(l, list, sub_size + 1, list_size)
  ELSE sub_size

\* "Partition the work among the threads": the segments of workers i..
RECURSIVE Partition(_, _, _)
Partition(i, list, list_size) ==
  IF i >= nr_threads THEN <<>>
  ELSE LET s0 == list_size \div (nr_threads - i)
           s1 == IF s0 < 2 * window /\ i + 1 < nr_threads THEN 0 ELSE s0
           sub_size == SplitOnPath(object_list, list, s1, list_size)
       IN <<[NoParams EXCEPT !.list = list, !.list_size = sub_size,
                             !.remaining = sub_size]>>
          \o Partition(i + 1, list + sub_size, list_size - sub_size)

\* the state in which prepare_pack calls ll_find_deltas, after
\* git_packbuilder_set_threads(pb, NumThreads) and ThreadObjs inserts; f:
\* the failures the environment has injected already; patterns: the ways
\* the inserts were named
InitThreadsWith(f, patterns) ==
  /\ odb = "threads"
  /\ ws = {32}
  /\ \E named \in patterns :
       object_list = [i \in 1..ThreadObjs |->
                        NewEntry(i, git_odb_object_type("threads", i),
                                 git_odb_object_size("threads", i),
                                 name_hash(IF i \in named THEN <<97>>
                                           ELSE "NULL"))]
  /\ object_ix = [id \in 1..ThreadObjs |-> id]
  /\ nr_alloc = AllocAfter(0, ThreadObjs)
  /\ done = FALSE
  /\ delta_cache_size = 0
  /\ nr_threads = NumThreads
  /\ ctx = <<>>
  /\ nr_written = 0
  /\ pc = "threads"
  /\ delta_list = git__tsort(object_list, DeltaCandidates(object_list))
  /\ fd = [t \in Workers |-> NoFrame]
  /\ p = [t \in Workers |-> NoParams]
  /\ co = [NoCoordinator EXCEPT !.pc = "partition"]
  /\ stream = <<>>
  /\ write_order = NoOrder
  /\ last = [op |-> "build", id |-> 0, ret |-> 0]
  /\ builds = 1
  /\ faults = f
  /\ hist = [NoHist EXCEPT !.searched = TRUE,
                           !.taken = [k \in DOMAIN delta_list |-> <<>>]]
  /\ nh = NoHash
  /\ gen = NoHeader

InitThreads == InitThreadsWith(0, NamePatterns)

\* ll_find_deltas, nr_threads > 1: the partition loop
CoPartition ==
  /\ pc = "threads"
  /\ co.pc = "partition"
  /\ nr_threads > 1
  /\ LET segs == Partition(0, 1, Len(delta_list))
     IN p' = [t \in 1..nr_threads |-> segs[t]]
  /\ co' = [co EXCEPT !.pc = "spawn", !.i = 1]
  /\ UNCHANGED <<odb, object_list, object_ix, nr_alloc, done, delta_cache_size,
                 nr_threads, ctx, nr_written, pc, delta_list, fd, stream,
                 write_order, last, builds, faults, hist, nh, ws, gen>>

\* "Start work threads": one pass of the loop, for worker co.i.  created:
\* git_thread_create succeeds
CoSpawn ==
  /\ pc = "threads"
  /\ co.pc = "spawn"
  /\ \E created \in BOOLEAN :
       LET i == co.i
           nxt == [co EXCEPT !.i = i + 1,
                             !.pc = IF i + 1 > nr_threads THEN "wait" ELSE "spawn"]
       IN IF p[i].list_size = 0
          THEN /\ created
               /\ co' = nxt
               /\ UNCHANGED <<p, fd, faults>>
          ELSE IF created
          THEN /\ co' = [nxt EXCEPT !.active_threads = co.active_threads + 1]
               /\ p' = [p EXCEPT ![i].pc = "test"]
               /\ UNCHANGED <<fd, faults>>
          ELSE \* "unable to create thread": return -1
               /\ faults < MaxFaults
               /\ faults' = faults + 1
               /\ co' = [co EXCEPT !.pc = "returned", !.ret = -1]
               /\ UNCHANGED <<p, fd>>
  /\ UNCHANGED <<odb, object_list, object_ix, nr_alloc, done, delta_cache_size,
                 nr_threads, ctx, nr_written, pc, delta_list, stream,
                 write_order, last, builds, hist, nh, ws, gen>>

\* the coordinator sees no worker that is not working
IdleWorkersNone == {}

\* the worker the coordinator picks: the first that is not working
IdleWorkers == {t \in Workers : p[t].working = 0}
FirstIdle == CHOOSE t \in IdleWorkers : \A u \in IdleWorkers : t <= u

\* the worker it steals from: the first among those with the most left
Victims == {t \in Workers : p[t].remaining > 2 * window}
Victim ==
  CHOOSE t \in Victims :
    \A u \in Victims : /\ p[u].remaining <= p[t].remaining
                       /\ p[u].remaining = p[t].remaining => t <= u

\* where the stolen segment starts: [list, sub_size] after the walk to a
\* path boundary
RECURSIVE StealBoundary(_, _)
StealBoundary(list, sub_size) ==
  IF sub_size # 0 /\ HashNonZero(object_list[delta_list[list]].hash)
     /\ object_list[delta_list[list]].hash
          = object_list[delta_list[list - 1]].hash
  THEN StealBoundary(list + 1, sub_size - 1)
  ELSE [list |-> list, sub_size |-> sub_size]

\* the body of "while (active_threads)" under progress_lock: wait for an
\* idle worker, steal half of the victim's segment for it
CoAssign ==
  /\ pc = "threads"
  /\ co.pc = "wait"
  /\ co.active_threads > 0
  /\ IdleWorkers # {}
  /\ LET target == FirstIdle
     IN IF Victims = {}
        THEN /\ p' = [p EXCEPT ![target].list_size = 0,
                               ![target].remaining = 0,
                               ![target].working = 1]
             /\ co' = [co EXCEPT !.pc = "ready", !.target = target,
                                 !.victim = 0, !.sub_size = 0]
        ELSE LET victim == Victim
                 half == p[victim].remaining \div 2
                 b == StealBoundary(p[victim].list + p[victim].list_size - half,
                                    half)
                 sub_size == IF b.sub_size = 0 THEN half ELSE b.sub_size
                 list == IF b.sub_size = 0 THEN b.list - half ELSE b.list
             IN /\ p' = [p EXCEPT ![victim].list_size = @ - sub_size,
                                  ![victim].remaining = @ - sub_size,
                                  ![target].list = list,
                                  ![target].list_size = sub_size,
                                  ![target].remaining = sub_size,
                                  ![target].working = 1]
                /\ co' = [co EXCEPT !.pc = "ready", !.target = target,
                                    !.victim = victim, !.sub_size = sub_size]
  /\ UNCHANGED <<odb, object_list, object_ix, nr_alloc, done, delta_cache_size,
                 nr_threads, ctx, nr_written, pc, delta_list, fd, stream,
                 write_order, last, builds, faults, hist, nh, ws, gen>>

\* target->data_ready = 1 and the signal, under the target's mutex
CoReady ==
  /\ pc = "threads"
  /\ co.pc = "ready"
  /\ p' = [p EXCEPT ![co.target].data_ready = 1]
  /\ co' = [co EXCEPT !.pc = IF co.sub_size = 0 THEN "join" ELSE "wait"]
  /\ UNCHANGED <<odb, object_list, object_ix, nr_alloc, done, delta_cache_size,
                 nr_threads, ctx, nr_written, pc, delta_list, fd, stream,
                 write_order, last, builds, faults, hist, nh, ws, gen>>

\* git_thread_join(target->thread): returns once the worker has exited
CoJoin ==
  /\ pc = "threads"
  /\ co.pc = "join"
  /\ p[co.target].pc = "exited"
  /\ p' = [p EXCEPT ![co.target].pc = "joined"]
  /\ co' = [co EXCEPT !.pc = "wait", !.active_threads = co.active_threads - 1]
  /\ UNCHANGED <<odb, object_list, object_ix, nr_alloc, done, delta_cache_size,
                 nr_threads, ctx, nr_written, pc, delta_list, fd, stream,
                 write_order, last, builds, faults, hist, nh, ws, gen>>

\* active_threads is 0: cleanup_threaded_search and return 0
CoReturn ==
  /\ pc = "threads"
  /\ co.pc = "wait"
  /\ co.active_threads = 0
  /\ co' = [co EXCEPT !.pc = "returned", !.ret = 0]
  /\ UNCHANGED <<odb, object_list, object_ix, nr_alloc, done, delta_cache_size,
                 nr_threads, ctx, nr_written, pc, delta_list, fd, p, stream,
                 write_order, last, builds, faults, hist, nh, ws, gen>>

\* threaded_find_deltas: find_deltas has returned, its result is dropped;
\* me->working = 0 and the signal, under progress_lock
WorkerIdle(t) ==
  /\ pc = "threads"
  /\ p[t].pc = "run"
  /\ fd[t].pc = "ret"
  /\ p' = [p EXCEPT ![t].working = 0, ![t].pc = "wait"]
  /\ hist' = [hist EXCEPT !.fd_error = hist.fd_error \/ fd[t].error]
  /\ fd' = [fd EXCEPT ![t] = NoFrame]
  /\ UNCHANGED <<odb, object_list, object_ix, nr_alloc, done, delta_cache_size,
                 nr_threads, ctx, nr_written, pc, delta_list, co, stream,
                 write_order, last, builds, faults, nh, ws, gen>>

\* threaded_find_deltas: the wait for data_ready and its reset, under the
\* worker's own mutex
WorkerWake(t) ==
  /\ pc = "threads"
  /\ p[t].pc = "wait"
  /\ p[t].data_ready = 1
  /\ p' = [p EXCEPT ![t].data_ready = 0, ![t].pc = "test"]
  /\ UNCHANGED <<odb, object_list, object_ix, nr_alloc, done, delta_cache_size,
                 nr_threads, ctx, nr_written, pc, delta_list, fd, co, stream,
                 write_order, last, builds, faults, hist, nh, ws, gen>>

\* threaded_find_deltas: "while (me->remaining)" and the call of find_deltas
\* with me->list, both read with no mutex held
WorkerTest(t) ==
  /\ pc = "threads"
  /\ p[t].pc = "test"
  /\ IF p[t].remaining # 0
     THEN /\ p' = [p EXCEPT ![t].pc = "run"]
          /\ fd' = [fd EXCEPT ![t] = NewFrame(p[t].list)]
          /\ hist' = [hist EXCEPT !.unlocked =
                        @ \cup {<<t, "remaining">>, <<t, "list">>}]
     ELSE /\ p' = [p EXCEPT ![t].pc = "exited"]
          /\ hist' = [hist EXCEPT !.unlocked = @ \cup {<<t, "remaining">>}]
          /\ UNCHANGED fd
  /\ UNCHANGED <<odb, object_list, object_ix, nr_alloc, done, delta_cache_size,
                 nr_threads, ctx, nr_written, pc, delta_list, co, stream,
                 write_order, last, builds, faults, nh, ws, gen>>

NextThreads ==
  \/ CoPartition
  \/ CoSpawn
  \/ CoAssign
  \/ CoReady
  \/ CoJoin
  \/ CoReturn
  \/ \E t \in Workers : FDTake(t)
  \/ \E t \in Workers : FDTry(t)
  \/ \E t \in Workers : FDFinish(t)
  \/ \E t \in Workers : WorkerIdle(t)
  \/ \E t \in Workers : WorkerWake(t)
  \/ \E t \in Workers : WorkerTest(t)

SpecThreads == InitThreads /\ [][NextThreads]_vars

\* The threaded search when nothing fails and every thread that can run
\* does run in the end: the coordinator is one thread, each worker another
Coordinator ==
  CoPartition \/ CoSpawn \/ CoAssign \/ CoReady \/ CoJoin \/ CoReturn

Worker(t) ==
  \/ FDTake(t) \/ FDTry(t) \/ FDFinish(t)
  \/ WorkerIdle(t) \/ WorkerWake(t) \/ WorkerTest(t)

\* every insert had a NULL name
InitThreadsNoErrors == InitThreadsWith(MaxFaults, {{}})

SpecThreadsFair ==
  /\ InitThreadsNoErrors
  /\ [][NextThreads]_vars
  /\ WF_vars(Coordinator)
  /\ \A t \in Workers : WF_vars(Worker(t))

\* C17: under fair scheduling and with no error of the delta engine, a
\* threaded search terminates: ll_find_deltas returns, a worker that waits
\* for data_ready always gets past the wait, every worker that was created
\* exits and is joined, and at the return no worker has entries left
C17_ThreadedSearchTerminates ==
  /\ <>[](/\ co.pc = "returned" /\ co.ret = 0
          /\ \A t \in Workers : /\ p[t].remaining = 0
                                /\ p[t].pc \in {"none", "joined"})
  /\ \A t \in Workers : (p[t].pc = "wait") ~> (p[t].pc = "test")

\* ll_find_deltas has returned after a steal: worker 1 took a position that
\* comes after one worker 2 took
C17_Witness ==
  /\ co.pc = "returned" /\ co.ret = 0
  /\ \A t \in Workers : p[t].pc = "joined"
  /\ \E k \in DOMAIN hist.taken :
       k > 1 /\ hist.taken[k] = <<1>> /\ hist.taken[k - 1] = <<2>>

\* the positions of delta_list worker t has been given and not yet taken:
\* the last remaining ones of its segment
RemainderOf(q, t) ==
  {k \in DOMAIN delta_list :
     /\ q[t].list + q[t].list_size - q[t].remaining <= k
     /\ k < q[t].list + q[t].list_size}

Remainder(t) == RemainderOf(p, t)

\* no position of the sorted list is taken twice
C16_TakenAtMostOnce ==
  \A k \in DOMAIN hist.taken : Len(hist.taken[k]) <= 1

\* the remainders of two workers never overlap, and hold no taken position
C16_RemaindersDisjoint ==
  \A t \in Workers :
    /\ \A u \in Workers \ {t} : Remainder(t) \cap Remainder(u) = {}
    /\ \A k \in Remainder(t) : hist.taken[k] = <<>>

\* a stolen segment is the end of what the victim had left
C16_StolenSliceIsSuffix ==
  [][(co.pc = "wait" /\ co'.pc = "ready" /\ co'.victim # 0) =>
       /\ co'.sub_size > 0
       /\ co'.sub_size <= p[co'.victim].remaining
       /\ p'[co'.target].list + co'.sub_size
            = p[co'.victim].list + p[co'.victim].list_size
       /\ RemainderOf(p', co'.target) \subseteq RemainderOf(p, co'.victim)]_vars

\* C16: in a threaded delta search the segments given to the workers, at
\* the partition and by every steal, are disjoint and cover the sorted
\* list: a position is taken at most once, a position not yet taken is in
\* the remainder of exactly one worker, and when ll_find_deltas returns
\* with 0 every position has been taken exactly once
C16_EachCandidateTakenOnce ==
  /\ C16_TakenAtMostOnce
  /\ C16_RemaindersDisjoint
  /\ co.pc \in {"spawn", "wait", "ready", "join"} =>
       \A k \in DOMAIN hist.taken :
         hist.taken[k] = <<>> => \E t \in Workers : k \in Remainder(t)
  /\ (co.pc = "returned" /\ co.ret = 0) =>
       \A k \in DOMAIN hist.taken : Len(hist.taken[k]) = 1

\* C18: every read and every write of remaining, working, list and
\* list_size of a worker, by the worker or by the coordinator, is made with
\* progress_mutex held
C18_FieldsUnderProgressMutex == hist.unlocked = {}

\* a worker is at its read of me->remaining with no mutex held while the
\* coordinator, holding progress_mutex, is at the steal that writes that
\* worker's remaining and list_size
C18_ReadRacesWithSteal ==
  \E t \in Workers :
    /\ p[t].pc = "test"
    /\ co.pc = "wait" /\ co.active_threads > 0
    /\ IdleWorkers # {} /\ Victims # {} /\ Victim = t

\* C8: ll_find_deltas never returns while a worker it spawned is unjoined,
\* on the success path and when the creation of a later worker fails.
C8_WorkersJoinedAtReturn ==
  co.pc = "returned" => \A t \in Workers : p[t].pc \in {"none", "joined"}

(***************************************************************************)
(* The partition loop of ll_find_deltas applied to sorted lists drawn from *)
(* a bounded set: n entries, the first k blobs and the others trees; among *)
(* the blobs the first a[1] were inserted with the name <<98>>, the next   *)
(* b[1] with <<97>> and the others with a NULL name, and so for the trees  *)
(* with a[2] and b[2].                                                     *)
(***************************************************************************)
PartitionName(i, k, n, a, b) ==
  LET g == IF i <= k THEN 1 ELSE 2
      j == IF i <= k THEN i ELSE i - k
  IN IF j <= a[g] THEN <<98>>
     ELSE IF j <= a[g] + b[g] THEN <<97>>
     ELSE "NULL"

InitPartition ==
  /\ odb = "threads"
  /\ ws = {32}
  /\ nr_threads \in 2..(NumThreads + 1)
  /\ \E n \in 2..ThreadObjs, k \in 0..ThreadObjs,
        a \in [1..2 -> 0..ThreadObjs], b \in [1..2 -> 0..ThreadObjs] :
       /\ k <= n
       /\ a[1] + b[1] <= k
       /\ a[2] + b[2] <= n - k
       /\ object_list = [i \in 1..n |->
                           NewEntry(i, IF i <= k THEN "blob" ELSE "tree", 50,
                                    name_hash(PartitionName(i, k, n, a, b)))]
  /\ object_ix = [id \in DOMAIN object_list |-> id]
  /\ nr_alloc = AllocAfter(0, Len(object_list))
  /\ done = FALSE
  /\ delta_cache_size = 0
  /\ ctx = <<>>
  /\ nr_written = 0
  /\ pc = "threads"
  /\ delta_list = git__tsort(object_list, DeltaCandidates(object_list))
  /\ fd = [t \in 1..nr_threads |-> NoFrame]
  /\ p = [t \in 1..nr_threads |-> NoParams]
  /\ co = [NoCoordinator EXCEPT !.pc = "partition"]
  /\ stream = <<>>
  /\ write_order = NoOrder
  /\ last = [op |-> "build", id |-> 0, ret |-> 0]
  /\ builds = 1
  /\ faults = 0
  /\ hist = [NoHist EXCEPT !.searched = TRUE,
                           !.taken = [i \in DOMAIN delta_list |-> <<>>]]
  /\ nh = NoHash
  /\ gen = NoHeader

SpecPartition == InitPartition /\ [][CoPartition]_vars

\* the partition loop has run
Partitioned == pc = "threads" /\ co.pc = "spawn"

\* the hash of the entry at a position of the sorted list
HashAt(k) == object_list[delta_list[k]].hash

\* what the division gives segment t before any adjustment: the entries
\* not yet given out, divided by the workers not yet served
WouldBe(t) == (Len(delta_list) + 1 - p[t].list) \div (nr_threads - (t - 1))

\* C20: in the initial partition a segment other than the last that would
\* be shorter than 2 * window has length zero, and the entry that ends a
\* segment and the entry after it, the first of the next segment that is
\* not empty, never have the same non-zero name_hash
C20_PartitionRespectsPaths ==
  Partitioned =>
    /\ \A t \in 1..(nr_threads - 1) :
         WouldBe(t) < 2 * window => p[t].list_size = 0
    /\ \A t \in 1..nr_threads :
         LET e == p[t].list + p[t].list_size - 1
         IN (p[t].list_size > 0 /\ e < Len(delta_list)) =>
              ~(HashNonZero(HashAt(e)) /\ HashAt(e + 1) = HashAt(e))

\* three workers: the first segment would be too short and is empty, the
\* second was made longer to end with a run of one hash, the third has
\* the rest
C20_Witness ==
  /\ Partitioned
  /\ nr_threads = 3
  /\ WouldBe(1) > 0 /\ p[1].list_size = 0
  /\ p[2].list_size > WouldBe(2)
  /\ p[3].list_size > 0
  /\ HashNonZero(HashAt(p[3].list))

(***************************************************************************)
(* compute_write_order applied to registries drawn from a bounded set.     *)
(***************************************************************************)
\* the entries of the registries the planner is applied to
PlanObjs == 4
PlanIds == 1..PlanObjs
PlanTypes == {"commit", "tag", "tree", "blob"}

\* following the links of parent from i ends, within fuel links, at an entry
\* that has none
RECURSIVE ReachesRoot(_, _, _)
ReachesRoot(parent, i, fuel) ==
  IF parent[i] = 0 THEN TRUE
  ELSE IF fuel = 0 THEN FALSE
  ELSE ReachesRoot(parent, parent[i], fuel - 1)

\* the state in which write_pack calls compute_write_order: PlanObjs entries
\* in insertion order, of any types, with any delta links that try_delta can
\* have left (between entries of one type, without a cycle)
InitPlan ==
  /\ odb = "mixed"
  /\ \E ty \in [PlanIds -> PlanTypes], parent \in [PlanIds -> 0..PlanObjs] :
       /\ \A i \in PlanIds :
            parent[i] # 0 => /\ ty[parent[i]] = ty[i]
                             /\ ReachesRoot(parent, i, PlanObjs)
       /\ object_list =
            [i \in PlanIds |->
               [NewEntry(i, ty[i], 60, name_hash("NULL"))
                  EXCEPT !.delta = parent[i],
                         !.delta_size = IF parent[i] = 0 THEN 0 ELSE 5]]
  /\ object_ix = [id \in PlanIds |-> id]
  /\ nr_alloc = AllocAfter(0, PlanObjs)
  /\ done = TRUE
  /\ delta_cache_size = 0
  /\ nr_threads = 1
  /\ ctx = <<>>
  /\ nr_written = 0
  /\ pc = "plan"
  /\ delta_list = <<>>
  /\ fd = [t \in {0} |-> NoFrame]
  /\ p = [t \in {0} |-> NoParams]
  /\ co = NoCoordinator
  /\ stream = <<>>
  /\ write_order = NoOrder
  /\ last = [op |-> "build", id |-> 0, ret |-> 0]
  /\ builds = 1
  /\ faults = 0
  /\ hist = NoHist
  /\ nh = NoHash
  /\ gen = NoHeader
  /\ ws = {32}

\* write_order = compute_write_order(pb), with git_tag_foreach reporting tags
PlanOrder(tags) ==
  /\ pc = "plan"
  /\ LET plan == compute_write_order(object_list, object_ix, tags)
     IN /\ object_list' = plan.l
        /\ write_order' = IF plan.ok THEN plan.wo ELSE NoOrder
  /\ pc' = "planned"
  /\ UNCHANGED <<odb, object_ix, nr_alloc, done, delta_cache_size, nr_threads,
                 ctx, nr_written, delta_list, fd, p, co, stream, last, builds,
                 faults, hist, nh, ws, gen>>

NextPlan == \E tags \in SUBSET PlanIds : PlanOrder(tags)

SpecPlan == InitPlan /\ [][NextPlan]_vars

\* compute_write_order has returned
Planned == pc = "planned"

\* the position of entry i in the array compute_write_order returned
PlanPos(i) == CHOOSE k \in DOMAIN write_order : write_order[k] = i

IsCommitOrTag(i) == object_list[i].type \in {"commit", "tag"}
IsTreeOrBlob(i) == object_list[i].type \in {"tree", "blob"}

\* entry i is not before the first tagged entry of the registry
FromFirstTagged(i) == \E k \in 1..i : object_list[k].tagged

\* C11 as stated: in the planned order every commit entry and every tag entry
\* is before every tree entry and every blob entry.
C11_CommitsAndTagsFirst ==
  Planned =>
    \A i, j \in DOMAIN object_list :
       (IsCommitOrTag(i) /\ IsTreeOrBlob(j)) => PlanPos(i) < PlanPos(j)

\* C11 amended: the entries before the first tagged entry are at the head of
\* the order in insertion order, whatever their types; among the others the
\* tagged entries are before the untagged ones, and every commit or tag entry
\* is before every untagged tree or blob entry.
C11_CommitsAndTagsFirstAfterRecency ==
  Planned =>
    /\ \A i \in DOMAIN object_list : ~FromFirstTagged(i) => write_order[i] = i
    /\ \A i, j \in DOMAIN object_list :
         (FromFirstTagged(i) /\ FromFirstTagged(j) /\ ~object_list[j].tagged)
           => /\ object_list[i].tagged => PlanPos(i) < PlanPos(j)
              /\ (IsCommitOrTag(i) /\ IsTreeOrBlob(j)) => PlanPos(i) < PlanPos(j)

\* an untagged commit was planned before an untagged blob inserted before it,
\* both inserted after the first tagged entry
C11_Witness ==
  /\ Planned
  /\ \E i, j \in DOMAIN object_list :
        /\ j < i /\ FromFirstTagged(j)
        /\ object_list[i].type = "commit" /\ ~object_list[i].tagged
        /\ object_list[j].type = "blob" /\ ~object_list[j].tagged
        /\ PlanPos(i) < PlanPos(j)

\* the entries whose delta base is r, in insertion order
RECURSIVE ChildrenFrom(_, _, _)
ChildrenFrom(l, r, i) ==
  IF i > Len(l) THEN <<>>
  ELSE (IF l[i].delta = r THEN <<i>> ELSE <<>>) \o ChildrenFrom(l, r, i + 1)

ChildrenOf(l, r) == ChildrenFrom(l, r, 1)

\* pre-order of the family below r: r, then each child followed by its own
\* descendants
RECURSIVE PreOrder(_, _)
RECURSIVE PreOrderAll(_, _)
PreOrder(l, r) == <<r>> \o PreOrderAll(l, ChildrenOf(l, r))

PreOrderAll(l, cs) ==
  IF cs = <<>> THEN <<>>
  ELSE PreOrder(l, Head(cs)) \o PreOrderAll(l, Tail(cs))

\* the order by blocks of siblings: the siblings cs, then for each of them in
\* turn the block of its children with all that is below it
RECURSIVE BlockOrder(_, _)
RECURSIVE BlockOrderBelow(_, _)
BlockOrder(l, cs) == cs \o BlockOrderBelow(l, cs)

BlockOrderBelow(l, cs) ==
  IF cs = <<>> THEN <<>>
  ELSE BlockOrder(l, ChildrenOf(l, Head(cs))) \o BlockOrderBelow(l, Tail(cs))

\* the entry without a delta base that the links from i lead to
RECURSIVE RootOf(_, _)
RootOf(l, i) == IF l[i].delta = 0 THEN i ELSE RootOf(l, l[i].delta)

\* s without the elements that are in acc
RECURSIVE Without(_, _)
Without(s, acc) ==
  IF s = <<>> THEN <<>>
  ELSE (IF \E k \in DOMAIN acc : acc[k] = Head(s) THEN <<>> ELSE <<Head(s)>>)
       \o Without(Tail(s), acc)

\* the order after the family phase, when a family is walked in the given
\* style: entry i, if not placed yet, brings its family in, less what is
\* placed already
RECURSIVE FamiliesFrom(_, _, _, _)
FamiliesFrom(l, acc, i, style) ==
  IF i > Len(l) THEN acc
  ELSE IF \E k \in DOMAIN acc : acc[k] = i THEN FamiliesFrom(l, acc, i + 1, style)
  ELSE LET r == RootOf(l, i)
           fam == IF style = "pre" THEN PreOrder(l, r) ELSE BlockOrder(l, <<r>>)
       IN FamiliesFrom(l, acc \o Without(fam, acc), i + 1, style)

\* what the phases before the family phase placed
BeforeFamilies ==
  PlanBeforeFamilies([i \in DOMAIN object_list |->
                        [object_list[i] EXCEPT !.filled = FALSE]]).wo

FirstFromTagged ==
  IF \E i \in DOMAIN object_list : object_list[i].tagged
  THEN CHOOSE i \in DOMAIN object_list : FromFirstTagged(i) /\ ~FromFirstTagged(i - 1)
  ELSE nr_objects + 1

\* C19 as stated: the family phase emits each family in pre-order from its
\* root: the root, then each child in insertion order, each immediately
\* followed by its own descendants.
C19_FamiliesInPreOrder ==
  Planned =>
    /\ write_order # NoOrder
    /\ write_order
         = FamiliesFrom(object_list, BeforeFamilies, FirstFromTagged, "pre")

\* C19 amended: the family phase emits each family from its root by blocks of
\* siblings: the root, then all children of the root in insertion order, then
\* for each child in turn the block of its children and what is below them.
C19_FamiliesInSiblingBlocks ==
  Planned =>
    /\ write_order # NoOrder
    /\ write_order
         = FamiliesFrom(object_list, BeforeFamilies, FirstFromTagged, "block")

\* the family phase placed two children of one root and a child of the first
C19_Witness ==
  /\ Planned
  /\ \E a, b, c \in DOMAIN object_list :
        /\ a < b
        /\ object_list[a].delta # 0
        /\ object_list[a].delta = object_list[b].delta
        /\ object_list[c].delta = a
        /\ \A x \in {a, b, c} : PlanPos(x) > Len(BeforeFamilies)
        /\ PlanPos(a) < PlanPos(b) /\ PlanPos(b) < PlanPos(c)

(***************************************************************************)
(* name_hash read over two names with a common tail.                       *)
(***************************************************************************)
\* what precedes the common tail in the first and in the second name
Bytes16 ==
  <<255, 255, 255, 255, 255, 255, 255, 255,
    255, 255, 255, 255, 255, 255, 255, 255>>

HashPrefixes ==
  {<<<<>>, <<120, 9, 121>>>>, <<<<97>>, Bytes16>>, <<<<2>>, <<3, 32>>>>}

\* the bytes of the common tail: two that are folded in, one of whitespace
TailBytes == {97, 255, 32}

InitHash ==
  /\ odb = "blobs"
  /\ InitSession
  /\ ws \in WhitespaceSets
  /\ \E pre \in HashPrefixes :
       nh = [a |-> name_hash(pre[1]), b |-> name_hash(pre[2]), n |-> 0,
             differ |-> name_hash(pre[1]) # name_hash(pre[2]),
             top6 |-> TopSix(name_hash(pre[1])) = TopSix(name_hash(pre[2]))]

\* one pass of name_hash's loop in both names, over the same byte c
NameHashByte(c) ==
  /\ nh.n < MaxTail
  /\ nh' = [nh EXCEPT !.a = HashStep(nh.a, c), !.b = HashStep(nh.b, c),
                      !.n = IF git__isspace(c) THEN nh.n ELSE nh.n + 1]
  /\ UNCHANGED <<odb, object_list, object_ix, nr_alloc, done, delta_cache_size,
                 nr_threads, ctx, nr_written, pc, delta_list, fd, p, co, stream,
                 write_order, last, builds, faults, hist, ws, gen>>

NextHash == \E c \in TailBytes : NameHashByte(c)

SpecHash == InitHash /\ [][NextHash]_vars

BuildSucceeded == pc = "idle" /\ last.op = "build" /\ last.ret = 0

\* the object records of a stream
ObjectRecords(s) == {i \in DOMAIN s : s[i].kind = "obj"}

RefDeltaBasesEarlier(s) ==
  \A i \in ObjectRecords(s) :
     s[i].type = "ref_delta" =>
       \E j \in ObjectRecords(s) : j < i /\ s[j].id = s[i].base

\* C1: in the stream of every successful build, the base id written in a
\* REF_DELTA record is the id of an entry whose record was emitted earlier
\* in the same stream.
C1_RefDeltaBaseEmittedEarlier == BuildSucceeded => RefDeltaBasesEarlier(stream)

\* C2: every successful build, a repeated one included, emits a header whose
\* entry count equals the number of object records that follow it, and ends
\* with a digest that is the rolling hash of exactly the bytes emitted before
\* it in that stream.
C2_HeaderCountAndDigest ==
  BuildSucceeded =>
    /\ Len(stream) >= 2
    /\ stream[1].kind = "hdr"
    /\ stream[1].count = Cardinality(ObjectRecords(stream))
    /\ stream[Len(stream)].kind = "digest"
    /\ stream[Len(stream)].of = SubSeq(stream, 1, Len(stream) - 1)

\* the number of delta links followed from entry i, at most fuel of them
RECURSIVE ChainLinks(_, _, _)
ChainLinks(l, i, fuel) ==
  IF l[i].delta = 0 \/ fuel = 0 THEN 0
  ELSE 1 + ChainLinks(l, l[i].delta, fuel - 1)

\* prepare_pack has run the delta search and returned 0
SearchCompleted == pc = "write" /\ hist.searched

\* C3: after any run of prepare_pack, a re-run after later inserts included,
\* following delta links from any entry never comes back to an entry and
\* follows at most max_depth links.
C3_ChainsAcyclicAndBounded ==
  SearchCompleted =>
    \A i \in DOMAIN object_list :
       /\ ChainLinks(object_list, i, nr_objects) < nr_objects
       /\ ChainLinks(object_list, i, nr_objects) <= depth

C4_AtMostOneEntryPerId ==
  \A i, j \in DOMAIN object_list :
     object_list[i].id = object_list[j].id => i = j

\* C4: the registry never holds two entries of one id, and an insert of an id
\* that is present returns 0 and changes neither the entries (so neither
\* their number) nor the done flag.
C4_InsertDeduplicates ==
  /\ [](C4_AtMostOneEntryPerId)
  /\ [][(last'.op = "insert" /\ IsPresent(last'.id))
          => (last'.ret = 0 /\ object_list' = object_list /\ done' = done)]_vars

\* an id that was present before the last build was inserted again
C4_Witness ==
  /\ last = [op |-> "insert", id |-> 1, ret |-> 0]
  /\ done
  /\ nr_objects = 2
  /\ C4_AtMostOneEntryPerId

\* a build has ended in which compute_write_order returned an array
PlanReturned == pc = "idle" /\ last.op = "build" /\ write_order # NoOrder

\* C5: whenever compute_write_order returns an array, the array has exactly
\* nr_objects elements and every entry of the registry is in it exactly once;
\* and it returns an array whenever the registry is not empty and nothing
\* has failed.
C5_WriteOrderIsPermutation ==
  /\ PlanReturned =>
       /\ Len(write_order) = nr_objects
       /\ \A i \in DOMAIN object_list :
            Cardinality({k \in DOMAIN write_order : write_order[k] = i}) = 1
  /\ (pc = "idle" /\ last.op = "build" /\ faults = 0 /\ nr_objects > 0)
       => write_order # NoOrder

\* an order was planned over three entries, one tagged, one a delta
C5_Witness ==
  /\ PlanReturned
  /\ nr_objects = 3
  /\ \E i \in DOMAIN object_list : object_list[i].tagged
  /\ \E i \in DOMAIN object_list : object_list[i].delta # 0

\* the position of entry i in the planned order
PositionOf(i) == CHOOSE k \in DOMAIN write_order : write_order[k] = i

\* C6 as stated: in the planned order every entry that has a delta base is
\* at a later position than its base.
C6_EveryDeltaFollowsBase ==
  PlanReturned =>
    \A i \in DOMAIN object_list :
       object_list[i].delta # 0 => PositionOf(i) > PositionOf(object_list[i].delta)

\* how many elements the phases before the family phase put into the order
\* (these phases read tagged, type and filled only)
PlacedBeforeFamilies ==
  Len(PlanBeforeFamilies(
        [i \in DOMAIN object_list |->
           [object_list[i] EXCEPT !.filled = FALSE]]).wo)

\* C6 amended: every entry that has a delta base and that the final (family)
\* phase of the planner places is at a later position than its base.
C6_FamilyPhaseDeltaFollowsBase ==
  PlanReturned =>
    \A i \in DOMAIN object_list :
       (object_list[i].delta # 0 /\ PositionOf(i) > PlacedBeforeFamilies)
         => PositionOf(i) > PositionOf(object_list[i].delta)

\* the family phase placed a delta, and its base was not placed before it
C6_Witness ==
  /\ PlanReturned
  /\ \E i \in DOMAIN object_list :
        /\ object_list[i].delta # 0
        /\ PositionOf(i) > PlacedBeforeFamilies
        /\ PositionOf(object_list[i].delta) > PlacedBeforeFamilies

\* C7: a build in whose delta search a read of the object database failed,
\* or returned a size other than the registered one, returns an error.
C7_SearchFailureIsReported ==
  (pc = "idle" /\ last.op = "build" /\ hist.read_failed) => last.ret # 0

\* the entries that hold cached delta bytes
CacheHolders ==
  {i \in DOMAIN object_list : object_list[i].delta_data \in {"raw", "z"}}

RECURSIVE SumZ(_)
SumZ(S) ==
  IF S = {} THEN 0
  ELSE LET i == CHOOSE x \in S : TRUE
       IN object_list[i].z_delta_size + SumZ(S \ {i})

\* C9: once prepare_pack has returned 0, delta_cache_size is the sum of
\* z_delta_size over the entries that hold cached delta bytes, and it is at
\* most max_delta_cache_size unless a single entry holds all of it.
C9_CacheAccounting ==
  pc = "write" =>
    /\ delta_cache_size = SumZ(CacheHolders)
    /\ delta_cache_size <= max_delta_cache_size \/ Cardinality(CacheHolders) <= 1

\* a call of git_packbuilder_insert: the only steps from idle to idle
InsertStep == pc = "idle" /\ pc' = "idle"

\* the entries as the callers see them: without the marks of stale pointers
Registered(l) ==
  [i \in DOMAIN l |-> [l[i] EXCEPT !.delta_stale = FALSE, !.links_stale = FALSE]]

\* C14: an insert whose read of the object database fails returns an error
\* and leaves the registered entries and the id-to-entry mapping as they
\* were; an insert of a readable id, after a failed one too, returns 0 and
\* the id is registered
C14_FailedInsertKeepsRegistry ==
  [][InsertStep =>
       /\ faults' # faults =>
            /\ last'.ret = -1
            /\ Registered(object_list') = Registered(object_list)
            /\ object_ix' = object_ix
       /\ faults' = faults =>
            /\ last'.ret = 0
            /\ object_ix'[last'.id] \in DOMAIN object_list'
            /\ object_list'[object_ix'[last'.id]].id = last'.id]_vars

\* an insert has failed and a later insert of another id has registered it
C14_Witness ==
  /\ hist.failed # 0
  /\ ~IsPresent(hist.failed)
  /\ last = [op |-> "insert", id |-> last.id, ret |-> 0]
  /\ last.id # hist.failed
  /\ object_ix[last.id] # 0
  /\ Len(object_list) > 1

\* a call of prepare_pack: the only steps that leave idle
PreparePackStep == pc = "idle" /\ pc' # "idle"

\* C15: prepare_pack called when no entry was added since it last returned 0
\* returns at once: no entry is changed and delta_cache_size is the same;
\* called after an entry was added, it goes into the delta search again
C15_PreparePackIdempotent ==
  [][PreparePackStep =>
       /\ hist.prepared = nr_objects =>
            /\ object_list' = object_list
            /\ delta_cache_size' = delta_cache_size
            /\ pc' = "write"
            /\ ~hist'.searched
       /\ (hist.prepared # nr_objects /\ nr_objects > 0) =>
            hist'.searched]_vars

\* prepare_pack was called a second time with no insert in between, over
\* entries its first call had mutated
C15_Witness ==
  /\ pc = "write" /\ builds = 2
  /\ ~hist.searched
  /\ hist.prepared = nr_objects
  /\ \E i \in DOMAIN object_list : object_list[i].delta # 0

\* prepare_pack ran the search again after an insert that followed a build
C15_WitnessSearchAgain ==
  /\ builds = 2 /\ hist.searched /\ pc = "find"
  /\ \E i \in DOMAIN object_list : object_list[i].written

\* what the slots of a window hold: the payloads loaded and the indexes
\* built, as free_unpacked counts them
RECURSIVE WindowMemFrom(_, _, _)
WindowMemFrom(l, array, i) ==
  IF i >= window THEN 0
  ELSE free_unpacked(l, array[i]) + WindowMemFrom(l, array, i + 1)

WindowMem(l, array) == WindowMemFrom(l, array, 0)

\* C21: at the start of every iteration of find_deltas' loop over the list,
\* mem_usage is the sum over the slots of the window of the size of the
\* payload loaded and of the size of the index built, and it is never below
\* zero
C21_MemUsageIsWindowSum ==
  \A t \in DOMAIN fd :
    /\ fd[t].mem_usage >= 0
    /\ fd[t].pc = "take" =>
         fd[t].mem_usage = WindowMem(object_list, fd[t].array)

\* the same accounting in the runs in which no rotation was entered with
\* best_base = -1 and no freed block was used
C21_SumHoldsWithValidBase ==
  \A t \in DOMAIN fd :
    ~hist.ub =>
      /\ fd[t].mem_usage >= 0
      /\ fd[t].pc = "take" =>
           fd[t].mem_usage = WindowMem(object_list, fd[t].array)

(***************************************************************************)
(* gen_pack_object_header, one pass of its loop at a time.  An unsigned     *)
(* long is the set of the positions of its bits that are set.              *)
(***************************************************************************)
\* the bit positions of an unsigned long
ULongBitPositions == 0..63

\* the values of git_otype the assert lets through: COMMIT .. REF_DELTA
HeaderTypes == 1..7

\* the sizes handed in: at most two bits set, or all the bits below one
HeaderSizes ==
  {{a, b} : a \in ULongBitPositions, b \in ULongBitPositions}
  \cup {0..k : k \in ULongBitPositions} \cup {{}}

RECURSIVE BitsValue(_, _)
\* the number whose bits are those of S below position n
BitsValue(S, n) ==
  IF n = 0 THEN 0
  ELSE (IF (n - 1) \in S THEN 2 ^ (n - 1) ELSE 0) + BitsValue(S, n - 1)

\* a mask that misses bit 6
LowBitsSix(S) == BitsValue(S, 6)

\* size & 0x7f
LowBitsSeven(S) == BitsValue(S, 7)

\* size >>= n
ShiftRight(S, n) == {i - n : i \in {j \in S : j >= n}}

\* (unsigned char)((type << 4) | (size & 15))
FirstByte(type, size) == (type * 16 + BitsValue(size, 4)) % 256

\* c | 0x80
WithContinue(c) == IF c >= 128 THEN c ELSE c + 128

InitHeader ==
  /\ odb = "blobs"
  /\ InitSessionButHeader
  /\ nh = NoHash
  /\ ws = {32}
  /\ \E type \in HeaderTypes, size \in HeaderSizes :
       gen = [NoHeader EXCEPT !.type = type, !.arg = size, !.size = size,
                              !.pc = "start"]

OnlyHeader ==
  UNCHANGED <<odb, object_list, object_ix, nr_alloc, done, delta_cache_size,
              nr_threads, ctx, nr_written, pc, delta_list, fd, p, co, stream,
              write_order, last, builds, faults, hist, nh, ws>>

\* from the entry to the top of the loop
HeaderStart ==
  /\ gen.pc = "start"
  /\ gen' = [gen EXCEPT !.c = FirstByte(gen.type, gen.size),
                        !.size = ShiftRight(gen.size, 4),
                        !.pc = "loop"]
  /\ OnlyHeader

\* one pass of "while (size)"
HeaderLoop ==
  /\ gen.pc = "loop"
  /\ gen.size # {}
  /\ gen' = [gen EXCEPT !.hdr = Append(gen.hdr, WithContinue(gen.c)),
                        !.c = LowBitsSeven(gen.size),
                        !.size = ShiftRight(gen.size, 7)]
  /\ OnlyHeader

\* the loop is left: the last byte, and the length returned
HeaderReturn ==
  /\ gen.pc = "loop"
  /\ gen.size = {}
  /\ gen' = [gen EXCEPT !.hdr = Append(gen.hdr, gen.c),
                        !.pc = "done",
                        !.ret = Len(gen.hdr) + 1]
  /\ OnlyHeader

NextHeader == HeaderStart \/ HeaderLoop \/ HeaderReturn

SpecHeader == InitHeader /\ [][NextHeader]_vars

\* the bits of byte c below position n, moved up by at
BitsOfByte(c, n, at) == {at + b : b \in {k \in 0..(n - 1) : (c \div 2 ^ k) % 2 = 1}}

RECURSIVE DecodeFrom(_, _, _)
\* the continuation bytes of h from position i on, while the byte before
\* says that the size continues; at: the position of the next group's bit 0
DecodeFrom(h, i, at) ==
  IF i > Len(h) THEN [size |-> {}, used |-> i - 1, cut |-> TRUE]
  ELSE LET rest == IF h[i] >= 128 THEN DecodeFrom(h, i + 1, at + 7)
                   ELSE [size |-> {}, used |-> i, cut |-> FALSE]
       IN [rest EXCEPT !.size = BitsOfByte(h[i], 7, at) \cup rest.size]

\* a reader of the header: type from bits 4-6 of the first byte, size from
\* its low 4 bits and 7 bits of every continuation byte, the least
\* significant group first
DecodeHeader(h) ==
  LET rest == IF h[1] >= 128 THEN DecodeFrom(h, 2, 4)
              ELSE [size |-> {}, used |-> 1, cut |-> FALSE]
  IN [type |-> (h[1] \div 16) % 8,
      size |-> BitsOfByte(h[1], 4, 0) \cup rest.size,
      used |-> rest.used,
      cut |-> rest.cut]

\* C22: for every type in COMMIT..REF_DELTA and every size of an unsigned
\* long, gen_pack_object_header writes at most 10 bytes, and a reader that
\* takes the type from bits 4-6 of the first byte and the size from its low
\* 4 bits and then 7 bits of each continuation byte, least significant group
\* first, the high bit meaning that another byte follows, gets the same
\* type and size from exactly those bytes
C22_HeaderRoundTrip ==
  /\ Len(gen.hdr) <= 10
  /\ gen.pc = "done" =>
       /\ gen.ret = Len(gen.hdr)
       /\ gen.ret <= 10
       /\ LET d == DecodeHeader(gen.hdr)
          IN /\ ~d.cut
             /\ d.used = gen.ret
             /\ d.type = gen.type
             /\ d.size = gen.arg

\* a REF_DELTA header of 10 bytes has been written for a size with its
\* highest bit set
C22_Witness ==
  /\ gen.pc = "done"
  /\ gen.type = 7
  /\ 63 \in gen.arg
  /\ gen.ret = 10
  /\ DecodeHeader(gen.hdr).size = gen.arg

(***************************************************************************)
(* The write phase and the delta links.                                    *)
(***************************************************************************)
\* following po->delta from any entry of l ends
AcyclicLinks(l) ==
  \A i \in DOMAIN l : ChainLinks(l, i, Len(l) + 1) <= Len(l)

\* a call of write_pack that got as far as the loop over write_order
WritePackStep == pc = "write" /\ pc' = "idle"

\* write_pack leaves po->delta of every entry as prepare_pack left it
WriteKeepsLinks ==
  \A i \in DOMAIN object_list :
    object_list[i].delta # 0 => object_list'[i].delta = object_list[i].delta

\* the stream of a build that returned 0 holds, for every entry that had a
\* delta base, a REF_DELTA record against that base
WriteEmitsRefDeltas ==
  last'.ret = 0 =>
    \A i \in DOMAIN object_list :
      object_list[i].delta # 0 =>
        \E k \in ObjectRecords(stream') :
          /\ stream'[k].id = object_list[i].id
          /\ stream'[k].type = "ref_delta"
          /\ stream'[k].base = object_list[object_list[i].delta].id

\* C23: when the delta links prepare_pack chose are acyclic, the write phase
\* clears no entry's delta base, and every entry that had a delta base after
\* prepare_pack is emitted as a REF_DELTA record against that base
C23_WriteNeverClearsDeltaBase ==
  [][(WritePackStep /\ AcyclicLinks(object_list))
       => WriteKeepsLinks /\ WriteEmitsRefDeltas]_vars

\* the first half of C23 alone
C23_LinksKept ==
  [][(WritePackStep /\ AcyclicLinks(object_list)) => WriteKeepsLinks]_vars

\* the second half of C23 in the first build of a session
C23_FirstBuildEmitsRefDeltas ==
  [][(WritePackStep /\ AcyclicLinks(object_list) /\ builds = 1
      /\ WriteKeepsLinks) => WriteEmitsRefDeltas]_vars

(***************************************************************************)
(* The rotation of the window.                                             *)
(***************************************************************************)
\* thread t goes through "Move the best delta base up in the window" in
\* this step
Rotates(t) ==
  /\ FDActive(t)
  /\ fd[t].pc = "finish"
  /\ fd'[t].pc = "take"
  /\ object_list[fd[t].po].delta # 0
  /\ ~(fd[t].max_depth <= fd[t].array[fd[t].idx].depth)

\* best_base of thread t is a slot of the window that holds the delta base
\* of the target
BestBaseHoldsDelta(t) ==
  /\ fd[t].best_base \in 0..(window - 1)
  /\ fd[t].array[fd[t].best_base].object = object_list[fd[t].po].delta

\* C24: whenever find_deltas rotates the window for a target (the target has
\* a delta base and was not dropped for being at max depth), best_base is a
\* slot index in [0, window) and that slot holds the target's delta base, in
\* every run of prepare_pack, a run after further inserts included
C24_RotationHasValidBase ==
  [][\A t \in DOMAIN fd : Rotates(t) => BestBaseHoldsDelta(t)]_vars

\* the same in the first build of a session
C24_FirstSearchHasValidBase ==
  [][\A t \in DOMAIN fd : (Rotates(t) /\ builds = 1) => BestBaseHoldsDelta(t)]_vars

(***************************************************************************)
(* The cached delta bytes over builds.                                     *)
(***************************************************************************)
\* the bytes delta_cache_size should count: the cached deltas not released
LiveCache ==
  LET RECURSIVE Sum(_)
      Sum(S) ==
        IF S = {} THEN 0
        ELSE LET i == CHOOSE x \in S : TRUE
             IN (IF object_list[i].delta_data = "z"
                 THEN object_list[i].z_delta_size
                 ELSE object_list[i].delta_size) + Sum(S \ {i})
  IN Sum(CacheHolders)

\* no step reads, writes or releases delta bytes that were released before
ReleasedBytesUnused ==
  \A i \in DOMAIN object_list :
    (i \in DOMAIN object_list' /\ object_list[i].delta_data = "freed")
      => object_list'[i].delta_data = "freed"

\* C25: over any sequence of builds and prepare_pack runs of a session, the
\* cached delta bytes of an entry are released at most once, no later
\* operation reads, writes or releases them again, and once the write phase
\* has released them delta_cache_size no longer counts them
C25_DeltaBytesReleasedOnce ==
  [][/\ ReleasedBytesUnused
     /\ ~hist'.released_twice
     /\ WritePackStep => delta_cache_size' = LiveCache']_vars

\* each part of C25 on its own
C25_ReleasedBytesUnused == [][ReleasedBytesUnused]_vars

C25_NoSecondRelease == ~hist.released_twice

C25_CacheSizeAfterWrite ==
  [][(WritePackStep /\ last'.ret = 0) => delta_cache_size' = LiveCache']_vars

(***************************************************************************)
(* Long sessions: two inserts, a build, and then one insert before each    *)
(* further build; no failure of the environment, the entry array never     *)
(* moved.                                                                  *)
(***************************************************************************)
DeepIds == 1..(NumIds + 2)

InitDeep ==
  /\ odb = "deep"
  /\ object_list = <<>>
  /\ object_ix = [id \in DeepIds |-> 0]
  /\ nr_alloc = 0
  /\ done = FALSE
  /\ delta_cache_size = 0
  /\ nr_threads = 1
  /\ ctx = <<>>
  /\ nr_written = 0
  /\ pc = "idle"
  /\ delta_list = <<>>
  /\ fd = [t \in {0} |-> NoFrame]
  /\ p = [t \in {0} |-> NoParams]
  /\ co = NoCoordinator
  /\ stream = <<>>
  /\ write_order = NoOrder
  /\ last = [op |-> "new", id |-> 0, ret |-> 0]
  /\ builds = 0
  /\ faults = MaxFaults
  /\ hist = NoHist
  /\ nh = NoHash
  /\ gen = NoHeader
  /\ ws = {32}

\* the caller inserts a new id when there is nothing to build yet
InsertDeep ==
  /\ nr_objects < 2 \/ done
  /\ nr_objects + 1 \in DeepIds
  /\ git_packbuilder_insert(nr_objects + 1, "NULL", TRUE, FALSE)

\* the caller builds when there is something new to build
BuildDeep == nr_objects >= 2 /\ ~done /\ prepare_pack

NextDeep ==
  \/ InsertDeep
  \/ BuildDeep
  \/ FDTake(0)
  \/ FDTry(0)
  \/ FDFinish(0)
  \/ LLFindDeltasSingle
  \/ WritePack

SpecDeep == InitDeep /\ [][NextDeep]_vars

\* thread t calls try_delta in this step and the call gets to the size limit
\* (the types are equal and the source is not at max_depth)
ReachesSizeLimit(t) ==
  /\ FDActive(t)
  /\ fd[t].pc = "try"
  /\ fd'[t] # fd[t]
  /\ LET f == fd[t]
         trg == f.array[f.idx]
         src == f.array[(f.idx + f.j - 1) % window]
     IN /\ object_list[trg.object].type = object_list[src.object].type
        /\ ~(src.depth >= f.max_depth)

\* the operands of the size limit are in range
SizeLimitDefined(t) ==
  LET f == fd[t]
      trg == f.array[f.idx]
      src == f.array[(f.idx + f.j - 1) % window]
      to == object_list[trg.object]
  IN /\ to.size >= 50
     /\ SizeLimitBase(to) >= 0
     /\ f.max_depth - src.depth > 0
     /\ RefDepth(to, trg) <= f.max_depth
     /\ SizeLimitDivisor(to, trg, f.max_depth) >= 1

\* C26: in every call of try_delta that prepare_pack makes, trg_size/2 - 20
\* does not go below zero (a target has at least 50 bytes), max_depth -
\* src.depth is positive, and ref_depth is at most max_depth, so that the
\* divisor max_depth - ref_depth + 1 is at least 1; also for a target whose
\* max_depth was lowered for the delta children it has
C26_SizeLimitWellDefined ==
  [][\A t \in DOMAIN fd : ReachesSizeLimit(t) => SizeLimitDefined(t)]_vars

====
